---- MODULE Spec2Model ----
(***************************************************************************)
(* Verification model of the meal-plan RAG service (src/rag).              *)
(*                                                                         *)
(* Two /generate handlers exist in the repository: the modular one         *)
(* (src/rag/app/routes/generate_routes.py) and the single-file one         *)
(* (src/rag/main.py).  A handler is a deterministic function of the        *)
(* request, the catalog tables and what the two providers answer; it is    *)
(* modelled as one action that records the result and the ordered trace of *)
(* the external calls the handler made.  The validator and the grounding   *)
(* verifier (src/rag/app/validators.py, src/rag/app/verify.py) are also    *)
(* exercised on their own under SpecPlan, step by step as lines 69-73 of   *)
(* generate_routes.py compose them.                                        *)
(***************************************************************************)
EXTENDS Integers, Sequences, FiniteSets, TLC

VARIABLES
    RAG_SHARED_SECRET,  \* config.py: the configured shared secret ("" = none)
    items,              \* table items: id -> [store]
    item_nutrition,     \* table item_nutrition: item_id -> stored nutrition text
    item_ingredients,   \* table item_ingredients: item_id -> stored ingredients text
    row_order,          \* the order in which the database scans item rows
    item_embeddings,    \* table item_embeddings: item_id -> vector
    item_nutrition_embeddings,    \* table item_nutrition_embeddings
    item_ingredients_embeddings,  \* table item_ingredients_embeddings
    phase,              \* "idle" | "validated" | "done"
    call,               \* the call being served (operation, service, request)
    result,             \* what the call produced
    trace,              \* ordered external calls made while serving it
    runs                \* backfill invocations in progress, step by step

\* what no handler writes
fixed == <<RAG_SHARED_SECRET, items, item_nutrition, item_ingredients, row_order>>
\* the three embedding tables, written by the backfill operations only
tables == <<item_embeddings, item_nutrition_embeddings, item_ingredients_embeddings>>

vars == <<fixed, tables, phase, call, result, trace, runs>>

---------------------------------------------------------------------------
(* Bounds of the model *)

\* catalog ids are 1..MaxItem
MaxItem == 2
\* a generated plan has at most MaxPlanDays days
MaxPlanDays == 2

(* Program constants *)

\* generate_routes.py:29  days < 1
MIN_DAYS == 1
\* generate_routes.py:29  days > 14
MAX_DAYS == 14
\* validators.py:17  Field(min_length=1, ...)
MIN_ITEMS == 1
\* validators.py:17  Field(..., max_length=8)
MAX_ITEMS == 8
\* validators.py:23  Field(min_length=3, max_length=3)
MEALS_PER_DAY == 3
\* verify.py:36  missing[:25]
MAX_REPORTED == 25
\* config.py:10  RETRIEVAL_K default
RETRIEVAL_K == 120
\* main.py:208  LIMIT 80
MAIN_LIMIT == 80

---------------------------------------------------------------------------
(* Strings are sequences of one-character strings, so that ILIKE can be    *)
(* computed character by character.                                        *)

Lower(c) ==
    CASE c = "T" -> "t"
      [] c = "J" -> "j"
      [] c = "X" -> "x"
      [] OTHER -> c

\* equality ignoring letter case: what the spec means by "case-insensitive"
EqualsIgnoreCase(a, b) ==
    /\ Len(a) = Len(b)
    /\ \A i \in 1..Len(a) : Lower(a[i]) = Lower(b[i])

\* PostgreSQL  s ILIKE p : p is a pattern, % matches any run of characters,
\* _ matches any one character, every other character matches itself
\* ignoring case.  (The escape character \ is not in the alphabet of the
\* stores modelled here.)
RECURSIVE ILike(_, _)
ILike(s, p) ==
    IF p = <<>> THEN s = <<>>
    ELSE IF Head(p) = "%"
         THEN ILike(s, Tail(p)) \/ (s # <<>> /\ ILike(Tail(s), p))
    ELSE IF s = <<>> THEN FALSE
    ELSE IF Head(p) = "_" THEN ILike(Tail(s), Tail(p))
    ELSE Lower(Head(s)) = Lower(Head(p)) /\ ILike(Tail(s), Tail(p))

\* sort a finite set of integers ascending (Python sorted(set(...)))
SortedSeq(S) ==
    [n \in 1..Cardinality(S) |->
        CHOOSE x \in S : Cardinality({y \in S : y < x}) = n - 1]

Range(f) == {f[i] : i \in DOMAIN f}

\* Python slice  s[:n]
Prefix(s, n) == IF Len(s) <= n THEN s ELSE SubSeq(s, 1, n)

---------------------------------------------------------------------------
(* JSON values, tagged by their JSON type. *)

JNull      == [t |-> "null"]
JStr(s)    == [t |-> "str", v |-> s]
JInt(n)    == [t |-> "int", v |-> n]
JList(seq) == [t |-> "list", v |-> seq]
JObj(rec)  == [t |-> "obj", v |-> rec]

IsObj(j)  == j.t = "obj"
IsList(j) == j.t = "list"
IsStr(j)  == j.t = "str"
Has(j, k) == k \in DOMAIN j.v

\* decimal strings a lax integer field accepts
NumStr == [s \in {"1", "2", "3"} |-> CASE s = "1" -> 1 [] s = "2" -> 2 [] OTHER -> 3]

\* Python truthiness of a JSON scalar (None, "", 0 are falsy)
Falsy(j) ==
    \/ j.t = "null"
    \/ (j.t = "str" /\ j.v = "")
    \/ (j.t = "int" /\ j.v = 0)

\* Python  a or b
Or(a, b) == IF Falsy(a) THEN b ELSE a

---------------------------------------------------------------------------
(* Results of a call: a response, an HTTPException raised by the handler's *)
(* own code (a typed failure), or an exception nobody handles (FastAPI     *)
(* turns it into a bare 500).                                              *)

Response(body) ==
    [ok |-> TRUE, status |-> 200, kind |-> "response", detail |-> body]
HTTPException(status, kind, detail) ==
    [ok |-> FALSE, status |-> status, kind |-> kind, detail |-> detail]
Unhandled(exc) ==
    [ok |-> FALSE, status |-> 500, kind |-> "internal", detail |-> exc]

\* a value returned normally by a helper that may raise
Value(v) == [ok |-> TRUE, status |-> 0, kind |-> "value", detail |-> v]

---------------------------------------------------------------------------
(* validators.py *)

\* pydantic int field (lax mode): a JSON integer, or a decimal string
IntLike(j) == j.t = "int" \/ (j.t = "str" /\ j.v \in DOMAIN NumStr)
ToInt(j)   == IF j.t = "int" THEN j.v ELSE NumStr[j.v]

\* class PlanItem: id: int, name: str
PlanItem_ok(j) ==
    /\ IsObj(j)
    /\ Has(j, "id")   /\ IntLike(j.v.id)
    /\ Has(j, "name") /\ IsStr(j.v.name)

MealNames == {"Breakfast", "Lunch", "Dinner"}

\* Meal with max_length off by one
Meal_ok_max9(j) ==
    /\ IsObj(j)
    /\ Has(j, "name")  /\ IsStr(j.v.name) /\ j.v.name.v \in MealNames
    /\ Has(j, "items") /\ IsList(j.v.items)
    /\ Len(j.v.items.v) >= MIN_ITEMS
    /\ Len(j.v.items.v) <= MAX_ITEMS + 1
    /\ \A k \in 1..Len(j.v.items.v) : PlanItem_ok(j.v.items.v[k])

\* class Meal: name: Literal[...], items: List[PlanItem] (1..8)
Meal_ok(j) ==
    /\ IsObj(j)
    /\ Has(j, "name")  /\ IsStr(j.v.name) /\ j.v.name.v \in MealNames
    /\ Has(j, "items") /\ IsList(j.v.items)
    /\ Len(j.v.items.v) >= MIN_ITEMS
    /\ Len(j.v.items.v) <= MAX_ITEMS
    /\ \A k \in 1..Len(j.v.items.v) : PlanItem_ok(j.v.items.v[k])

\* class DayPlan: date: str, meals: List[Meal] (exactly 3)
DayPlan_ok(j) ==
    /\ IsObj(j)
    /\ Has(j, "date")  /\ IsStr(j.v.date)
    /\ Has(j, "meals") /\ IsList(j.v.meals)
    /\ Len(j.v.meals.v) >= MEALS_PER_DAY
    /\ Len(j.v.meals.v) <= MEALS_PER_DAY
    /\ \A k \in 1..Len(j.v.meals.v) : Meal_ok(j.v.meals.v[k])

\* class MealPlanDoc: title, startDate, endDate: str, plan: List[DayPlan]
\* (no length constraint on plan; _meta is a private attribute, not a field)
MealPlanDoc_ok(j) ==
    /\ IsObj(j)
    /\ Has(j, "title")     /\ IsStr(j.v.title)
    /\ Has(j, "startDate") /\ IsStr(j.v.startDate)
    /\ Has(j, "endDate")   /\ IsStr(j.v.endDate)
    /\ Has(j, "plan")      /\ IsList(j.v.plan)
    /\ \A k \in 1..Len(j.v.plan.v) : DayPlan_ok(j.v.plan.v[k])

\* the validated model object built from a conforming JSON value
MealPlanDoc_model(j) ==
    [title     |-> j.v.title.v,
     startDate |-> j.v.startDate.v,
     endDate   |-> j.v.endDate.v,
     plan      |-> [d \in 1..Len(j.v.plan.v) |->
        LET day == j.v.plan.v[d] IN
        [date  |-> day.v.date.v,
         meals |-> [m \in 1..Len(day.v.meals.v) |->
            LET meal == day.v.meals.v[m] IN
            [name  |-> meal.v.name.v,
             items |-> [k \in 1..Len(meal.v.items.v) |->
                [id   |-> ToInt(meal.v.items.v[k].v.id),
                 name |-> meal.v.items.v[k].v.name.v]]]]]]]

\* the text a generative model returned: "empty" (None or ""), "blank"
\* (whitespace only), "text" (not JSON) or "json" (parses to .value); json.loads
\* succeeds on the last kind only
Text(kind) == [kind |-> kind, value |-> JNull]
JsonText(j) == [kind |-> "json", value |-> j]

\* a validator that answers an empty plan for text json.loads rejects
parse_and_validate_lenient(content) ==
    IF content.kind \in {"empty", "blank"}
    THEN HTTPException(500, "upstream_empty", "LLM returned empty response")
    ELSE IF content.kind # "json"
    THEN Value([title |-> "", startDate |-> "", endDate |-> "", plan |-> <<>>])
    ELSE IF ~MealPlanDoc_ok(content.value)
    THEN HTTPException(500, "schema_invalid", "LLM JSON schema validation failed")
    ELSE Value(MealPlanDoc_model(content.value))

\* def parse_and_validate_plan_json(content) -> MealPlanDoc
parse_and_validate_plan_json(content) ==
    IF content.kind \in {"empty", "blank"}
    THEN HTTPException(500, "upstream_empty", "LLM returned empty response")
    ELSE IF content.kind # "json"
    THEN HTTPException(500, "schema_invalid", "LLM did not return valid JSON")
    ELSE IF ~MealPlanDoc_ok(content.value)
    THEN HTTPException(500, "schema_invalid", "LLM JSON schema validation failed")
    ELSE Value(MealPlanDoc_model(content.value))

RECURSIVE Concat(_)
Concat(ss) == IF ss = <<>> THEN <<>> ELSE Head(ss) \o Concat(Tail(ss))

\* def extract_item_ids(doc) -> List[int]
extract_item_ids(doc) ==
    Concat([d \in 1..Len(doc.plan) |->
        Concat([m \in 1..Len(doc.plan[d].meals) |->
            [k \in 1..Len(doc.plan[d].meals[m].items) |->
                doc.plan[d].meals[m].items[k].id]])])

---------------------------------------------------------------------------
(* Trace events: one per external call, in the order the handler makes     *)
(* them.  ev is "embed" (embedding provider), "db:..." (a database query)  *)
(* or "llm" (generative provider); data is what was sent or received.      *)

Event(ev, data) == [ev |-> ev, data |-> data]

\* a helper's outcome together with the calls it made
Did(res, tr) == [res |-> res, trace |-> tr]

Count(tr, ev) == Cardinality({i \in DOMAIN tr : tr[i].ev = ev})
IsDbEvent(e) == e.ev \in {"db:retrieve", "db:nutrition", "db:ingredients", "db:verify"}

---------------------------------------------------------------------------
(* verify.py *)

\* a verifier that lets a plan citing no id through
verify_item_ids_allowing_none(store, item_ids) ==
    LET unique_ids == SortedSeq(Range(item_ids))
        found == {i \in Range(unique_ids) :
                     i \in DOMAIN items /\ ILike(items[i].store, store)}
        missing == SelectSeq(unique_ids, LAMBDA i : i \notin found)
        query == <<Event("conn:open", "verify"), Event("db:verify", store),
                   Event("conn:close", "verify")>>
    IN  IF item_ids = <<>> THEN Did(Value(<<>>), <<>>)
        ELSE IF missing # <<>>
        THEN Did(HTTPException(500, "grounding", Prefix(missing, MAX_REPORTED)), query)
        ELSE Did(Value(<<>>), query)

\* a verifier that reports every missing id, in the order the caller gave
verify_item_ids_reporting_all(store, item_ids) ==
    IF item_ids = <<>>
    THEN Did(HTTPException(500, "grounding", <<>>), <<>>)
    ELSE LET found == {i \in Range(item_ids) :
                          i \in DOMAIN items /\ ILike(items[i].store, store)}
             missing == SelectSeq(item_ids, LAMBDA i : i \notin found)
             query == <<Event("conn:open", "verify"), Event("db:verify", store),
                        Event("conn:close", "verify")>>
         IN  IF missing # <<>>
             THEN Did(HTTPException(500, "grounding", missing), query)
             ELSE Did(Value(<<>>), query)

\* def verify_item_ids_belong_to_store(store, item_ids) -> None
verify_item_ids_belong_to_store(store, item_ids) ==
    IF item_ids = <<>>
    THEN Did(HTTPException(500, "grounding", <<>>), <<>>)
    ELSE LET unique_ids == SortedSeq(Range(item_ids))
             found == {i \in Range(unique_ids) :
                          i \in DOMAIN items /\ ILike(items[i].store, store)}
             missing == SelectSeq(unique_ids, LAMBDA i : i \notin found)
             query == <<Event("conn:open", "verify"), Event("db:verify", store),
                        Event("conn:close", "verify")>>
         IN  IF missing # <<>>
             THEN Did(HTTPException(500, "grounding", Prefix(missing, MAX_REPORTED)), query)
             ELSE Did(Value(<<>>), query)

---------------------------------------------------------------------------
(* embedding.py, retrieval.py, llm.py: the three external collaborators of *)
(* /generate.  What a provider answers is an input of the handler.         *)

\* def embed_one(text): one provider call; the provider answers a vector or
\* the client raises
embed_one(text, reply) ==
    LET sent == <<Event("embed", [text |-> text, reply |-> reply])>> IN
    IF reply.kind = "raise"
    THEN Did(Unhandled("OpenAIError"), sent)
    ELSE Did(Value(reply.vec), sent)

Dist(v, q) == IF v >= q THEN v - q ELSE q - v

\* where the database's scan meets the row of item x
ScanPos(x) == CHOOSE n \in DOMAIN row_order : row_order[n] = x

\* an ordering by descending distance
RECURSIVE FarthestFirst(_, _)
FarthestFirst(S, q) ==
    IF S = {} THEN <<>>
    ELSE LET m == CHOOSE x \in S : \A y \in S :
                      \/ Dist(item_embeddings[x], q) > Dist(item_embeddings[y], q)
                      \/ /\ Dist(item_embeddings[x], q) = Dist(item_embeddings[y], q)
                         /\ ScanPos(x) <= ScanPos(y)
         IN  <<m>> \o FarthestFirst(S \ {m}, q)

\* ORDER BY ie.embedding <=> q : ascending distance.  The database leaves the
\* order of ties open: rows at the same distance come out in scan order.
RECURSIVE NearestFirst(_, _)
NearestFirst(S, q) ==
    IF S = {} THEN <<>>
    ELSE LET m == CHOOSE x \in S : \A y \in S :
                      \/ Dist(item_embeddings[x], q) < Dist(item_embeddings[y], q)
                      \/ /\ Dist(item_embeddings[x], q) = Dist(item_embeddings[y], q)
                         /\ ScanPos(x) <= ScanPos(y)
         IN  <<m>> \o NearestFirst(S \ {m}, q)

\* Python None (also the value of dict.get for an absent key)
None == JNull

\* the keys _compact_nutrition keeps
COMPACT_NUTRITION_KEYS ==
    {"serving_count", "serving_size_text", "serving_size_grams", "calories",
     "protein_g", "total_fat_g", "total_carbohydrate_g", "dietary_fiber_g",
     "total_sugars_g", "sodium_mg", "cholesterol_mg", "saturated_fat_g"}

\* dict.get(key): None when the key is absent
Get(obj, k) == IF Has(obj, k) THEN obj.v[k] ELSE JNull

\* def _compact_nutrition(nutrition_json): the stored column is a text
\* (Text / JsonText) or None
_compact_nutrition(nutrition_json) ==
    IF nutrition_json = None \/ nutrition_json.kind = "empty" THEN None
    ELSE IF nutrition_json.kind # "json" THEN None
    ELSE IF ~IsObj(nutrition_json.value) THEN None
    ELSE LET parsed == Get(nutrition_json.value, "parsed") IN
         IF ~IsObj(parsed) THEN None
         ELSE JObj([k \in COMPACT_NUTRITION_KEYS |-> Get(parsed, k)])

\* the names of the dict entries of a list that carry a truthy name
IngredientNames(lst) ==
    LET named == SelectSeq(lst, LAMBDA x : IsObj(x) /\ ~Falsy(Get(x, "name")))
    IN  [n \in 1..Len(named) |-> Get(named[n], "name")]

\* def _compact_ingredients(ingredients_json)
_compact_ingredients(ingredients_json) ==
    IF ingredients_json = None \/ ingredients_json.kind = "empty" THEN None
    ELSE IF ingredients_json.kind # "json" THEN None
    ELSE IF ~IsObj(ingredients_json.value) THEN None
    ELSE LET parsed == Get(ingredients_json.value, "parsed") IN
         IF ~IsObj(parsed) THEN None
         ELSE LET lst == Get(parsed, "ingredients_list") IN
              JObj([ingredients_raw   |-> Or(Get(parsed, "ingredients_raw"),
                                             Get(ingredients_json.value, "raw")),
                    ingredients_names |-> JList(IF IsList(lst)
                                                THEN IngredientNames(Prefix(lst.v, 30))
                                                ELSE <<>>),
                    ingredients_count |-> Get(parsed, "ingredients_count")])

\* nutrition_by_id.get(iid), ingredients_by_id.get(iid)
RowOf(table, iid) == IF iid \in DOMAIN table THEN table[iid] ELSE None

\* def retrieve_candidates(store, query_vec, k): on one connection, items
\* INNER JOIN item_embeddings WHERE store ILIKE %s ORDER BY distance LIMIT k,
\* then, when anything was found, the two enrichment queries and the merge
retrieve_candidates(store, query_vec, k) ==
    LET hits == {i \in DOMAIN items :
                    i \in DOMAIN item_embeddings /\ ILike(items[i].store, store)}
        rows == Prefix(NearestFirst(hits, query_vec), k)
        enriched == [n \in 1..Len(rows) |->
                        [id          |-> rows[n],
                         nutrition   |-> _compact_nutrition(RowOf(item_nutrition, rows[n])),
                         ingredients |-> _compact_ingredients(RowOf(item_ingredients, rows[n]))]]
    IN  IF rows = <<>>
        THEN Did(Value(<<>>), <<Event("conn:open", "retrieve"),
                                Event("db:retrieve", store),
                                Event("conn:close", "retrieve")>>)
        ELSE Did(Value(enriched), <<Event("conn:open", "retrieve"),
                                    Event("db:retrieve", store),
                                    Event("db:nutrition", rows),
                                    Event("db:ingredients", rows),
                                    Event("conn:close", "retrieve")>>)

\* def call_mealplan_llm(system, user_payload, temperature): one provider
\* call; returns message.content or ""
call_mealplan_llm(reply) ==
    IF reply.kind = "raise"
    THEN Did(Unhandled("OpenAIError"), <<Event("llm", reply)>>)
    ELSE Did(Value(reply), <<Event("llm", reply)>>)

---------------------------------------------------------------------------
(* Request models *)

\* models.py: class Preferences (modular service)
Preferences_fields == {"dietaryRestrictions", "allergies", "targetCaloriesPerDay"}
\* main.py: class Preferences (single-file service)
Main_Preferences_fields ==
    {"dietaryRestrictions", "dislikedIngredients", "targetCaloriesPerDay"}

\* pydantic builds the model from the JSON body: declared fields only,
\* absent ones default to None, unknown keys are ignored
Preferences(fields, body) ==
    [f \in fields |-> IF f \in DOMAIN body THEN body[f] ELSE JNull]

\* the attributes the f-string of the query text reads, in order
QueryAttrs == <<"dietaryRestrictions", "dislikedIngredients", "targetCaloriesPerDay">>

\* query_text = f"""...""".strip(): reading an attribute the model does not
\* declare raises AttributeError
query_text(req) ==
    LET p == req.preferences IN
    IF \E i \in 1..Len(QueryAttrs) : QueryAttrs[i] \notin DOMAIN p
    THEN Unhandled("AttributeError")
    ELSE Value([days     |-> req.days,
                store    |-> req.store,
                dietary  |-> Or(p["dietaryRestrictions"], JStr("none")),
                disliked |-> Or(p["dislikedIngredients"], JStr("none")),
                calories |-> Or(p["targetCaloriesPerDay"], JStr("not specified"))])

\* a check that lets a request without the header through
auth_header_optional(secret) ==
    IF RAG_SHARED_SECRET # "" /\ secret # "<None>" /\ secret # RAG_SHARED_SECRET
    THEN HTTPException(401, "unauthorized", "Unauthorized")
    ELSE Value(<<>>)

\* def auth(secret)
auth(secret) ==
    IF RAG_SHARED_SECRET # "" /\ secret # RAG_SHARED_SECRET
    THEN HTTPException(401, "unauthorized", "Unauthorized")
    ELSE Value(<<>>)

---------------------------------------------------------------------------
(* generate_routes.py: the modular POST /generate *)

\* the range check with its upper limit off by one
days_out_of_range_off_by_one(days) == days < MIN_DAYS \/ days > MAX_DAYS + 1

\* if req.days < 1 or req.days > 14
days_out_of_range(days) == days < MIN_DAYS \/ days > MAX_DAYS

\* doc.model_dump() with the provenance attached, as serialised into planJson
model_dump(doc) ==
    JObj([k \in {"title", "startDate", "endDate", "plan", "_meta"} |->
        CASE k = "title"     -> JStr(doc.title)
          [] k = "startDate" -> JStr(doc.startDate)
          [] k = "endDate"   -> JStr(doc.endDate)
          [] k = "_meta"     -> JObj([generatedBy |-> JStr("python-rag-openai"),
                                      retrievalK  |-> JInt(RETRIEVAL_K)])
          [] OTHER -> JList([d \in 1..Len(doc.plan) |->
                JObj([date  |-> JStr(doc.plan[d].date),
                      meals |-> JList([m \in 1..Len(doc.plan[d].meals) |->
                        LET meal == doc.plan[d].meals[m] IN
                        JObj([name  |-> JStr(meal.name),
                              items |-> JList([i \in 1..Len(meal.items) |->
                                JObj([id   |-> JInt(meal.items[i].id),
                                      name |-> JStr(meal.items[i].name)])])])])])])])

GenerateResponse(title, startDate, endDate, planJson) ==
    Response([title |-> title, startDate |-> startDate, endDate |-> endDate,
              planJson |-> planJson])

\* def generate(req, x_rag_secret)
generate(req, x_rag_secret, embed_reply, llm_reply) ==
    LET a   == auth(x_rag_secret)
        q   == query_text(req)
        e   == embed_one(q.detail, embed_reply)
        c   == retrieve_candidates(req.store, e.res.detail, RETRIEVAL_K)
        l   == call_mealplan_llm(llm_reply)
        doc == parse_and_validate_plan_json(l.res.detail)
        ids == extract_item_ids(doc.detail)
        v   == verify_item_ids_belong_to_store(req.store, ids)
    IN  IF ~a.ok THEN Did(a, <<>>)
        ELSE IF days_out_of_range(req.days)
        THEN Did(HTTPException(400, "input_error", "days must be between 1 and 14"), <<>>)
        ELSE IF ~q.ok THEN Did(q, <<>>)
        ELSE IF ~e.res.ok THEN e
        ELSE IF c.res.detail = <<>>
        THEN Did(HTTPException(400, "not_ready", "No embedded items found. Run /embed/backfill first."),
                 e.trace \o c.trace)
        ELSE IF ~l.res.ok THEN Did(l.res, e.trace \o c.trace \o l.trace)
        ELSE IF l.res.detail.kind = "empty"
        THEN Did(HTTPException(500, "upstream_empty", "LLM returned empty response"),
                 e.trace \o c.trace \o l.trace)
        ELSE IF ~doc.ok THEN Did(doc, e.trace \o c.trace \o l.trace)
        ELSE IF ~v.res.ok THEN Did(v.res, e.trace \o c.trace \o l.trace \o v.trace)
        ELSE Did(GenerateResponse(doc.detail.title, doc.detail.startDate,
                                  doc.detail.endDate, model_dump(doc.detail)),
                 e.trace \o c.trace \o l.trace \o v.trace)

---------------------------------------------------------------------------
(* main.py: the single-file POST /generate *)

\* SELECT ... INNER JOIN item_embeddings WHERE store ILIKE %s ORDER BY ... LIMIT 80
main_retrieve(store, query_vec) ==
    LET hits == {i \in DOMAIN items :
                    i \in DOMAIN item_embeddings /\ ILike(items[i].store, store)}
    IN  Did(Value(Prefix(NearestFirst(hits, query_vec), MAIN_LIMIT)),
            <<Event("conn:open", "retrieve"), Event("db:retrieve", store),
              Event("conn:close", "retrieve")>>)

\* a client that asks the provider again after an empty answer
main_call_llm_retry(reply) ==
    IF reply.kind = "raise"
    THEN Did(HTTPException(500, "upstream_error", "Error calling LLM"), <<Event("llm", reply)>>)
    ELSE IF reply.kind = "empty"
    THEN Did(Value(reply), <<Event("llm", reply), Event("llm", reply)>>)
    ELSE Did(Value(reply), <<Event("llm", reply)>>)

\* try: client.chat.completions.create(...) except Exception: raise HTTPException(500)
main_call_llm(reply) ==
    IF reply.kind = "raise"
    THEN Did(HTTPException(500, "upstream_error", "Error calling LLM"), <<Event("llm", reply)>>)
    ELSE Did(Value(reply), <<Event("llm", reply)>>)

\* lines 267-278: default the three header fields, then build the response;
\* parsed.get on a non-dict raises AttributeError, a non-string title or
\* date fails GenerateResponse's validation
main_respond(parsed) ==
    IF ~IsObj(parsed) THEN Unhandled("AttributeError")
    ELSE LET title     == Or(Get(parsed, "title"), JStr("AI Meal Plan"))
             startDate == Or(Get(parsed, "startDate"), JStr("start"))
             endDate   == Or(Get(parsed, "endDate"), JStr("end"))
             updated   == JObj([k \in DOMAIN parsed.v \cup {"title", "startDate", "endDate"} |->
                                CASE k = "title"     -> title
                                  [] k = "startDate" -> startDate
                                  [] k = "endDate"   -> endDate
                                  [] OTHER -> parsed.v[k]])
         IN  IF ~(IsStr(title) /\ IsStr(startDate) /\ IsStr(endDate))
             THEN Unhandled("ValidationError")
             ELSE GenerateResponse(title.v, startDate.v, endDate.v, updated)

\* def generate(req, x_rag_secret)  (main.py)
main_generate(req, x_rag_secret, embed_reply, llm_reply) ==
    LET a == auth(x_rag_secret)
        q == query_text(req)
        e == embed_one(q.detail, embed_reply)
        c == main_retrieve(req.store, e.res.detail)
        l == main_call_llm(llm_reply)
    IN  IF ~a.ok THEN Did(a, <<>>)
        ELSE IF days_out_of_range(req.days)
        THEN Did(HTTPException(400, "input_error", "days must be between 1 and 14"), <<>>)
        ELSE IF ~q.ok THEN Did(q, <<>>)
        ELSE IF ~e.res.ok THEN e
        ELSE IF c.res.detail = <<>>
        THEN Did(HTTPException(400, "not_ready",
                     "No embedded items found for that store. Run /embed/backfill first."),
                 e.trace \o c.trace)
        ELSE IF ~l.res.ok THEN Did(l.res, e.trace \o c.trace \o l.trace)
        ELSE IF l.res.detail.kind = "empty"
        THEN Did(HTTPException(500, "upstream_empty", "LLM returned empty response"),
                 e.trace \o c.trace \o l.trace)
        ELSE IF l.res.detail.kind # "json"
        THEN Did(HTTPException(500, "schema_invalid", "LLM did not return valid JSON"),
                 e.trace \o c.trace \o l.trace)
        ELSE Did(main_respond(l.res.detail.value), e.trace \o c.trace \o l.trace)

---------------------------------------------------------------------------
(* embedding.py: the documents sent to the embedding provider.  A document *)
(* is the sequence of its lines ("\n".join(parts)); the empty sequence is  *)
(* the empty string.  Stored texts are shorter than the 1000 characters a  *)
(* raw text is cut to.                                                     *)

Line(label, v) == [label |-> label, v |-> v]

\* Python truthiness of a JSON value (None, "", 0, {} and [] are falsy)
Truthy(j) ==
    CASE j.t = "obj"  -> DOMAIN j.v # {}
      [] j.t = "list" -> j.v # <<>>
      [] OTHER        -> ~Falsy(j)

\* i.get('tags_json') of the catalog row of item i
tags_json(i) ==
    IF "tags_json" \in DOMAIN items[i] THEN items[i].tags_json ELSE None

\* json.dumps escapes a character outside ASCII unless ensure_ascii=False
AsciiEscaped(c) == IF c = "é" THEN "\\u00e9" ELSE c

\* json.dumps(tags, ensure_ascii=..) of a list of strings: its entries
json_dumps(tags, ensure_ascii) ==
    [n \in DOMAIN tags.v |->
        IF ensure_ascii THEN AsciiEscaped(tags.v[n].v) ELSE tags.v[n].v]

\* def item_doc(i): six labelled lines, whatever the row holds; the tags
\* line is empty when the row has no tags
item_doc(i) ==
    <<Line("name", i), Line("store", items[i].store), Line("category", ""),
      Line("unit", ""), Line("price", ""),
      Line("tags", IF tags_json(i) # None THEN json_dumps(tags_json(i), TRUE) ELSE "")>>

\* main.py  def item_doc(i): the same six lines
main_item_doc(i) ==
    <<Line("name", i), Line("store", items[i].store), Line("category", ""),
      Line("unit", ""), Line("price", ""),
      Line("tags", IF tags_json(i) # None THEN json_dumps(tags_json(i), TRUE) ELSE "")>>

\* scripts/backfill_item_embeddings.py  def item_to_text(item): five labelled
\* lines, the fourth labelled unit_size, and the tags line only when the row
\* has tags, dumped with ensure_ascii=False
item_to_text(i) ==
    <<Line("name", i), Line("store", items[i].store), Line("category", ""),
      Line("unit_size", ""), Line("price", "")>>
    \o (IF tags_json(i) # None
        THEN <<Line("tags", json_dumps(tags_json(i), FALSE))>> ELSE <<>>)

\* the keys nutrition_doc reads, in the order of its lines; the first three
\* are written when truthy, the others when not None
NUTRITION_DOC_TRUTHY_KEYS == <<"serving_count", "serving_size_text", "serving_size_grams">>
NUTRITION_DOC_KEYS ==
    <<"calories", "total_fat_g", "saturated_fat_g", "trans_fat_g", "cholesterol_mg",
      "sodium_mg", "total_carbohydrate_g", "dietary_fiber_g", "total_sugars_g",
      "added_sugars_g", "protein_g", "vitamin_d_mcg", "calcium_mg", "iron_mg",
      "potassium_mg">>

\* one line per key of keys whose value is truthy: if parsed.get(key):
TruthyLines(obj, keys) ==
    LET present == SelectSeq(keys, LAMBDA k : Truthy(Get(obj, k)))
    IN  [n \in 1..Len(present) |-> Line(present[n], Get(obj, present[n]))]

\* one line per key of keys whose value is not None
PresentLines(obj, keys) ==
    LET present == SelectSeq(keys, LAMBDA k : Get(obj, k) # None)
    IN  [n \in 1..Len(present) |-> Line(present[n], Get(obj, present[n]))]

\* def nutrition_doc(nutrition_data): the column is a str here (a value of
\* another type yields ""); parsed.get on a truthy non-dict raises
nutrition_doc(nutrition_text) ==
    IF nutrition_text.kind \in {"empty", "decoded"} THEN Value(<<>>)
    ELSE IF nutrition_text.kind # "json"
    THEN Value(<<Line("Nutrition", nutrition_text)>>)
    ELSE LET nutrition_json == nutrition_text.value IN
         IF ~(IsObj(nutrition_json) /\ Has(nutrition_json, "parsed"))
         THEN Value(<<Line("Nutrition", nutrition_text)>>)
         ELSE LET parsed == Get(nutrition_json, "parsed")
                  raw_text == Get(nutrition_json, "raw")
                  parts == IF ~Truthy(parsed) THEN <<>>
                           ELSE <<Line("Nutrition Facts", "")>>
                                \o TruthyLines(parsed, NUTRITION_DOC_TRUTHY_KEYS)
                                \o PresentLines(parsed, NUTRITION_DOC_KEYS)
              IN  IF Truthy(parsed) /\ ~IsObj(parsed) THEN Unhandled("AttributeError")
                  ELSE IF Len(parts) <= 1 /\ Truthy(raw_text)
                  THEN Value(<<Line("Nutrition", raw_text)>>)
                  ELSE Value(parts)

\* the lines ingredients_doc writes for a truthy parsed dict
ingredients_parts(parsed) ==
    LET lst == Get(parsed, "ingredients_list")
        ingredients_list == IF IsList(lst) THEN lst.v ELSE <<>>
        is_sub(ing) == Truthy(Get(ing, "is_sub_ingredient"))
        main_ingredients == SelectSeq(ingredients_list, LAMBDA ing : ~is_sub(ing))
        sub_ingredients == SelectSeq(ingredients_list, LAMBDA ing :
                               /\ is_sub(ing)
                               /\ Truthy(Get(ing, "parent"))
                               /\ Truthy(Get(ing, "name")))
        ct == Get(parsed, "contains_less_than")
        contains_less_than ==
            SelectSeq(IF IsList(ct) THEN ct.v ELSE <<>>, LAMBDA c :
                IsList(Get(c, "ingredients"))
                /\ \E n \in DOMAIN Get(c, "ingredients").v :
                      Truthy(Get(Get(c, "ingredients").v[n], "name")))
    IN  <<Line("Ingredients", "")>>
        \o (IF main_ingredients = <<>> THEN <<>>
            ELSE <<Line("Main ingredients",
                        [n \in 1..Len(main_ingredients) |->
                            Get(main_ingredients[n], "name")])>>)
        \o [n \in 1..Len(sub_ingredients) |->
               Line("contains", sub_ingredients[n])]
        \o [n \in 1..Len(contains_less_than) |->
               Line("Contains or less of", contains_less_than[n])]

\* a list holds an entry that is no dict: entry.get raises AttributeError
HasNonDict(lst) == IsList(lst) /\ \E n \in DOMAIN lst.v : ~IsObj(lst.v[n])

\* ', '.join(main_ingredients) meets a name that is no str: TypeError
HasNonStrName(lst) ==
    /\ IsList(lst)
    /\ \E n \in DOMAIN lst.v :
          /\ ~Truthy(Get(lst.v[n], "is_sub_ingredient"))
          /\ Has(lst.v[n], "name") /\ ~IsStr(lst.v[n].v["name"])

\* def ingredients_doc(ingredients_data): the column is a str here (a value
\* of another type yields ""); the fall-back to the raw text sits inside
\* if parsed:  (lines 107-146), so a falsy parsed yields ""; .get on a
\* truthy parsed that is no dict, or on a list entry that is no dict, raises
\* AttributeError, which  except (json.JSONDecodeError, TypeError)  does not
\* catch; a TypeError of the join is caught and the stored text appended
ingredients_doc(ingredients_text) ==
    IF ingredients_text.kind \in {"empty", "decoded"} THEN Value(<<>>)
    ELSE IF ingredients_text.kind # "json"
    THEN Value(<<Line("Ingredients", ingredients_text)>>)
    ELSE LET ingredients_json == ingredients_text.value IN
         IF ~(IsObj(ingredients_json) /\ Has(ingredients_json, "parsed"))
         THEN Value(<<Line("Ingredients", ingredients_text)>>)
         ELSE LET parsed == Get(ingredients_json, "parsed")
                  raw_text == Get(ingredients_json, "raw")
                  lst == Get(parsed, "ingredients_list")
                  ct == Get(parsed, "contains_less_than")
              IN  IF ~Truthy(parsed) THEN Value(<<>>)
                  ELSE IF ~IsObj(parsed) THEN Unhandled("AttributeError")
                  ELSE IF HasNonDict(lst) THEN Unhandled("AttributeError")
                  ELSE IF HasNonStrName(lst)
                  THEN Value(<<Line("Ingredients", ""),
                               Line("Ingredients", ingredients_text)>>)
                  ELSE IF HasNonDict(ct)
                          \/ (IsList(ct) /\ \E n \in DOMAIN ct.v :
                                 HasNonDict(Get(ct.v[n], "ingredients")))
                  THEN Unhandled("AttributeError")
                  ELSE IF Len(ingredients_parts(parsed)) <= 1 /\ Truthy(raw_text)
                  THEN Value(<<Line("Ingredients", raw_text)>>)
                  ELSE Value(ingredients_parts(parsed))

\* def embed_texts(texts): one provider call for all the texts; the client
\* raises, or the provider answers and the function returns one vector per
\* entry of resp.data: one per text, or (reply "short") one fewer
embed_texts(texts, reply) ==
    LET sent == <<Event("embed", [text |-> texts, reply |-> reply])>>
        answered == IF reply.kind = "short" /\ texts # <<>>
                    THEN Len(texts) - 1 ELSE Len(texts)
    IN  IF reply.kind = "raise"
        THEN Did(Unhandled("OpenAIError"), sent)
        ELSE Did(Value([n \in 1..answered |-> reply.vec]), sent)

---------------------------------------------------------------------------
(* retrieval.py: selecting the rows that miss an embedding, and the upsert. *)
(* An embedding table is a function from item id to vector: the tables are *)
(* keyed by item_id, which the ON CONFLICT (item_id) clause relies on.     *)

\* if store: ... "AND i.store ILIKE %s"  (no filter for None or "")
StoreFilter(i, store) == store = <<>> \/ ILike(items[i].store, store)

\* INNER JOIN <source> ... WHERE <column> IS NOT NULL AND <column> != ''
Usable(source) == {i \in DOMAIN source : source[i] # None /\ source[i].kind # "empty"}

\* a selection that does not look at the embedding table
SelectAll(sourced, embeddings, store, limit) ==
    Prefix(SortedSeq({i \in DOMAIN items : i \in sourced /\ StoreFilter(i, store)}),
           limit)

\* ... LEFT JOIN <embeddings> e ON i.id = e.item_id WHERE e.item_id IS NULL
\* ORDER BY i.id LIMIT %s, over the items that have a source row
SelectMissing(sourced, embeddings, store, limit) ==
    Prefix(SortedSeq({i \in DOMAIN items :
                         /\ i \in sourced
                         /\ i \notin DOMAIN embeddings
                         /\ StoreFilter(i, store)}),
           limit)

\* the query of a fetch_*_missing_embeddings, on a connection of its own
Selected(space, store, limit, rows) ==
    Did(rows, <<Event("conn:open", "select"),
                Event("db:select", [space |-> space, store |-> store,
                                    limit |-> limit, rows |-> rows]),
                Event("conn:close", "select")>>)

\* def fetch_items_missing_embeddings(store, limit)
fetch_items_missing_embeddings(store, limit) ==
    Selected("items", store, limit,
             SelectMissing(DOMAIN items, item_embeddings, store, limit))

\* def fetch_nutrition_missing_embeddings(store, limit)
fetch_nutrition_missing_embeddings(store, limit) ==
    Selected("nutrition", store, limit,
             SelectMissing(Usable(item_nutrition), item_nutrition_embeddings, store, limit))

\* def fetch_ingredients_missing_embeddings(store, limit)
fetch_ingredients_missing_embeddings(store, limit) ==
    Selected("ingredients", store, limit,
             SelectMissing(Usable(item_ingredients), item_ingredients_embeddings,
                           store, limit))

Min(a, b) == IF a <= b THEN a ELSE b

\* the loop with ON CONFLICT (item_id) DO NOTHING: a stored row is kept
InsertedIfAbsent(embeddings, rows, vectors) ==
    LET n == Min(Len(rows), Len(vectors))
        written == {rows[k] : k \in 1..n} \ DOMAIN embeddings
    IN  [i \in DOMAIN embeddings \cup written |->
            IF i \in written
            THEN vectors[CHOOSE k \in 1..n : rows[k] = i]
            ELSE embeddings[i]]

\* an upsert whose writes are lost
Discarded(embeddings, rows, vectors) == embeddings

\* for r, v in zip(rows, vectors): INSERT ... ON CONFLICT (item_id) DO UPDATE
\* SET embedding = EXCLUDED.embedding : the table after the loop
Upserted(embeddings, rows, vectors) ==
    LET n == Min(Len(rows), Len(vectors))
        written == {rows[k] : k \in 1..n}
    IN  [i \in DOMAIN embeddings \cup written |->
            IF i \in written
            THEN vectors[CHOOSE k \in 1..n : rows[k] = i /\ \A m \in 1..n : rows[m] = i => m <= k]
            ELSE embeddings[i]]

\* what an upsert_* returns (updated += 1 per pair), the table it leaves and
\* its calls: the loop and one commit, on a connection of its own
Upsert(space, embeddings, rows, vectors) ==
    LET n == Min(Len(rows), Len(vectors)) IN
    [res   |-> n,
     table |-> Upserted(embeddings, rows, vectors),
     trace |-> <<Event("conn:open", "upsert"),
                 Event("db:upsert", [space |-> space, rows |-> SubSeq(rows, 1, n),
                                     vectors |-> SubSeq(vectors, 1, n)]),
                 Event("db:commit", space),
                 Event("conn:close", "upsert")>>]

\* def upsert_item_embeddings(rows, vectors)
upsert_item_embeddings(rows, vectors) ==
    Upsert("items", item_embeddings, rows, vectors)
\* def upsert_nutrition_embeddings(rows, vectors)
upsert_nutrition_embeddings(rows, vectors) ==
    Upsert("nutrition", item_nutrition_embeddings, rows, vectors)
\* def upsert_ingredients_embeddings(rows, vectors)
upsert_ingredients_embeddings(rows, vectors) ==
    Upsert("ingredients", item_ingredients_embeddings, rows, vectors)

---------------------------------------------------------------------------
(* embed_routes.py: POST /embed/backfill/items | nutrition | ingredients   *)

BackfillResponse(updated, skipped) ==
    Response([updated |-> updated, skipped |-> skipped])

\* what a backfill handler did: its result, its calls, the table it leaves
Wrote(res, tr, table) == [res |-> res, trace |-> tr, table |-> table]

\* rows = fetch_*_missing_embeddings(req.store, req.limit) of the route
FetchOf(space, store, limit) ==
    CASE space = "items"     -> fetch_items_missing_embeddings(store, limit)
      [] space = "nutrition" -> fetch_nutrition_missing_embeddings(store, limit)
      [] OTHER               -> fetch_ingredients_missing_embeddings(store, limit)

\* item_doc(r), nutrition_doc(r), ingredients_doc(r) of the route
DocOf(space, r) ==
    CASE space = "items"     -> Value(item_doc(r))
      [] space = "nutrition" -> nutrition_doc(item_nutrition[r])
      [] OTHER               -> ingredients_doc(item_ingredients[r])

\* texts = [*_doc(r) for r in rows]: the documents of the rows, or the
\* first exception a builder raised
DocsOf(space, rows) ==
    IF \E n \in DOMAIN rows : ~DocOf(space, rows[n]).ok
    THEN DocOf(space, rows[CHOOSE n \in DOMAIN rows :
                    /\ ~DocOf(space, rows[n]).ok
                    /\ \A m \in 1..(n - 1) : DocOf(space, rows[m]).ok])
    ELSE Value([n \in DOMAIN rows |-> DocOf(space, rows[n]).detail])

\* updated = upsert_*(rows, vectors) of the route
UpsertOf(space, rows, vectors) ==
    CASE space = "items"     -> upsert_item_embeddings(rows, vectors)
      [] space = "nutrition" -> upsert_nutrition_embeddings(rows, vectors)
      [] OTHER               -> upsert_ingredients_embeddings(rows, vectors)

\* the table of a space among the three embedding tables tbls
TableOf(space, tbls) ==
    CASE space = "items"     -> tbls[1]
      [] space = "nutrition" -> tbls[2]
      [] OTHER               -> tbls[3]

\* the body the three routes share: auth; rows = fetch(...); if not rows:
\* return (0, 0); texts; vectors = embed_texts(texts); updated = upsert(...);
\* return (updated, 0)
backfill_route(space, req, x_rag_secret, reply) ==
    LET a == auth(x_rag_secret)
        fetched == FetchOf(space, req.store, req.limit)
        rows == fetched.res
        texts == DocsOf(space, rows)
        e == embed_texts(texts.detail, reply)
        u == UpsertOf(space, rows, e.res.detail)
        table == TableOf(space, tables)
    IN  IF ~a.ok THEN Wrote(a, <<>>, table)
        ELSE IF rows = <<>> THEN Wrote(BackfillResponse(0, 0), fetched.trace, table)
        ELSE IF ~texts.ok THEN Wrote(texts, fetched.trace, table)
        ELSE IF ~e.res.ok THEN Wrote(e.res, fetched.trace \o e.trace, table)
        ELSE Wrote(BackfillResponse(u.res, 0),
                   fetched.trace \o e.trace \o u.trace, u.table)

\* def backfill(req, x_rag_secret)
backfill(req, x_rag_secret, reply) ==
    backfill_route("items", req, x_rag_secret, reply)

\* def backfill_nutrition(req, x_rag_secret)
backfill_nutrition(req, x_rag_secret, reply) ==
    backfill_route("nutrition", req, x_rag_secret, reply)

\* def backfill_ingredients(req, x_rag_secret)
backfill_ingredients(req, x_rag_secret, reply) ==
    backfill_route("ingredients", req, x_rag_secret, reply)

---------------------------------------------------------------------------
(* main.py: the single-file POST /embed/backfill.  One connection is open  *)
(* from the SELECT to the commit, the provider call included.              *)

\* def backfill_embeddings(req, x_rag_secret)
backfill_embeddings(req, x_rag_secret, reply) ==
    LET a == auth(x_rag_secret)
        rows == SelectMissing(DOMAIN items, item_embeddings, req.store, req.limit)
        open == <<Event("conn:open", "backfill"),
                  Event("db:select", [space |-> "items", store |-> req.store,
                                      limit |-> req.limit, rows |-> rows])>>
        shut == <<Event("conn:close", "backfill")>>
        e == embed_texts([n \in DOMAIN rows |-> main_item_doc(rows[n])], reply)
        vectors == e.res.detail
        updated == Min(Len(rows), Len(vectors))
    IN  IF ~a.ok THEN Wrote(a, <<>>, item_embeddings)
        ELSE IF rows = <<>>
        THEN Wrote(BackfillResponse(0, 0), open \o shut, item_embeddings)
        ELSE IF ~e.res.ok THEN Wrote(e.res, open \o e.trace \o shut, item_embeddings)
        ELSE Wrote(BackfillResponse(updated, 0),
                   open \o e.trace
                   \o <<Event("db:upsert", [space |-> "items",
                                            rows |-> SubSeq(rows, 1, updated),
                                            vectors |-> SubSeq(vectors, 1, updated)]),
                        Event("db:commit", "items")>>
                   \o shut,
                   Upserted(item_embeddings, rows, vectors))

---------------------------------------------------------------------------
(* scripts/backfill_item_embeddings.py: the command-line backfill.  One    *)
(* connection serves the whole run; each round selects --chunk rows,       *)
(* embeds them, upserts and commits.                                       *)

\* what the provider answers in a round: replies[round], the last one after
ReplyAt(replies, round) == replies[Min(round, Len(replies))]

\* while processed < args.limit: ... (lines 136-150); an exception of the
\* provider ends the run, what earlier rounds committed stays
RECURSIVE script_rounds(_, _, _, _, _, _)
script_rounds(args, replies, round, processed, embeddings, tr) ==
    LET batch_items == SelectMissing(DOMAIN items, embeddings, args.store, args.chunk)
        select == <<Event("db:select", [space |-> "items", store |-> args.store,
                                        limit |-> args.chunk, rows |-> batch_items])>>
        shut == <<Event("conn:close", "script")>>
        e == embed_texts([n \in DOMAIN batch_items |-> item_to_text(batch_items[n])],
                         ReplyAt(replies, round))
        vectors == e.res.detail
        n == Min(Len(batch_items), Len(vectors))
    IN  IF ~(processed < args.limit)
        THEN Wrote(Value([processed |-> processed]), tr \o shut, embeddings)
        ELSE IF batch_items = <<>>
        THEN Wrote(Value([processed |-> processed]), tr \o select \o shut, embeddings)
        ELSE IF ~e.res.ok
        THEN Wrote(e.res, tr \o select \o e.trace \o shut, embeddings)
        ELSE script_rounds(args, replies, round + 1, processed + Len(batch_items),
                 Upserted(embeddings, batch_items, vectors),
                 tr \o select \o e.trace
                    \o <<Event("db:upsert", [space |-> "items",
                                             rows |-> SubSeq(batch_items, 1, n),
                                             vectors |-> SubSeq(vectors, 1, n)]),
                         Event("db:commit", "items")>>)

\* def main()  with --store, --limit and --chunk parsed into args
script_main(args, replies) ==
    script_rounds(args, replies, 1, 0, item_embeddings,
                  <<Event("conn:open", "script")>>)

---------------------------------------------------------------------------
(* app/main.py: GET /health *)

\* def health(): no authentication, no query
health == Response([ok |-> TRUE])

---------------------------------------------------------------------------
(* Inputs: catalogs, requests and provider answers, drawn from small sets. *)

\* "T_J" stands for the importer's default store TRADER_JOES
\* (scripts/import_tj.py:174); "TxJ" is another store of the same length
CatalogStores == {<<"T", "_", "J">>, <<"T", "x", "J">>}

\* stores a caller asks for: the default store in lower case, the other
\* store, a bare wildcard, and a store nobody sells under
RequestStores == {<<"t", "_", "j">>, <<"T", "x", "J">>, <<"%">>, <<"w">>}

ItemIds == 1..MaxItem

Catalogs ==
    UNION {[S -> [store : CatalogStores]] : S \in SUBSET ItemIds}

Vectors == {1}

EmbeddingTables(catalog) ==
    UNION {[S -> Vectors] : S \in SUBSET (DOMAIN catalog)}

Secrets == {"", "s3cret"}
\* the X-RAG-Secret header: absent (None), right, wrong
Headers == {"<None>", "s3cret", "wrong"}

DaysValues == {0, 1, 2, MAX_DAYS, MAX_DAYS + 1}

\* preferences as the caller's JSON: nothing given, or everything given
\* (under both names the two services use for the second field)
PrefBodies ==
    {[k \in {} |-> JNull],
     [dietaryRestrictions  |-> JStr("vegan"),
      allergies            |-> JStr("nuts"),
      dislikedIngredients  |-> JStr("kale"),
      targetCaloriesPerDay |-> JInt(2000)]}

EmbedReplies == {[kind |-> "raise", vec |-> 0], [kind |-> "ok", vec |-> 1]}

JItem(id) == JObj([id |-> JInt(id), name |-> JStr("item")])
\* n items whose ids cycle through the tuple ids
JItems(n, ids) == JList([k \in 1..n |-> JItem(ids[((k - 1) % Len(ids)) + 1])])
JMeal(name, n, ids) == JObj([name |-> JStr(name), items |-> JItems(n, ids)])
\* a day whose first meal has n items and whose other meals have one
JDay(names, n, ids) ==
    JObj([date  |-> JStr("date"),
          meals |-> JList([m \in 1..Len(names) |->
                        JMeal(names[m], IF m = 1 THEN n ELSE 1, ids)])])
JDoc(days) ==
    JObj([title |-> JStr("plan"), startDate |-> JStr("start"),
          endDate |-> JStr("end"), plan |-> JList(days)])

ThreeMeals == <<"Breakfast", "Lunch", "Dinner">>

NameTuples ==
    {ThreeMeals,
     <<"Breakfast", "Breakfast", "Lunch">>,
     <<"Breakfast", "Lunch", "Snack">>,
     <<"Breakfast", "Lunch">>,
     <<"Breakfast", "Lunch", "Dinner", "Breakfast">>}

ItemCounts == {0, 1, 2, MAX_ITEMS, MAX_ITEMS + 1}

\* ids a model may cite: catalog ids and one id no catalog has
CitedIds == 1..(MaxItem + 1)
IdTuples ==
    {SortedSeq(S) : S \in {T \in SUBSET CitedIds : Cardinality(T) \in {1, 2}}}

GoodDay == JDay(ThreeMeals, 1, <<1>>)

\* plans of 1..MaxPlanDays days: one day is d, the others are GoodDay
PlansAround(d) ==
    UNION {{[i \in 1..n |-> IF i = pos THEN d ELSE GoodDay] : pos \in 1..n} :
              n \in 1..MaxPlanDays}

\* texts that are JSON but no plan, or a plan with a mistyped field
OddJson ==
    {JNull,
     JList(<<>>),
     JObj([k \in {} |-> JNull]),
     JObj([title |-> JInt(7), startDate |-> JStr("start"),
           endDate |-> JStr("end"), plan |-> JList(<<>>)]),
     JObj([title |-> JStr("plan"), startDate |-> JStr("start"),
           endDate |-> JStr("end"), plan |-> JNull]),
     JObj([title |-> JStr("plan"), startDate |-> JStr("start"), endDate |-> JStr("end"),
           plan |-> JList(<<JObj([meals |-> JList(<<>>)])>>)]),
     JDoc(<<JObj([date |-> JStr("date"), meals |-> JList(<<
            JObj([name |-> JStr("Breakfast"), items |-> JList(<<
                JObj([id |-> JStr("1"), name |-> JStr("item")])>>)]),
            JMeal("Lunch", 1, <<1>>), JMeal("Dinner", 1, <<1>>)>>)])>>),
     JDoc(<<JObj([date |-> JStr("date"), meals |-> JList(<<
            JObj([name |-> JStr("Breakfast"), items |-> JList(<<
                JObj([id |-> JStr("one"), name |-> JStr("item")])>>)]),
            JMeal("Lunch", 1, <<1>>), JMeal("Dinner", 1, <<1>>)>>)])>>)}

NonJson == {Text("empty"), Text("blank"), Text("text")}

\* what the validator is run on under SpecPlan
PlanTexts ==
    NonJson
    \cup {JsonText(j) : j \in OddJson}
    \cup {JsonText(JDoc(<<>>))}
    \cup {JsonText(JDoc(p)) :
            p \in UNION {PlansAround(JDay(nm, n, ids)) :
                            nm \in NameTuples, n \in ItemCounts, ids \in IdTuples}}

\* what the generative provider answers under Spec
LLMReplies ==
    {Text("raise")} \cup NonJson
    \cup {JsonText(j) : j \in OddJson}
    \cup {JsonText(JDoc(<<>>))}
    \cup {JsonText(JDoc([i \in 1..n |-> JDay(nm, 1, ids)])) :
            n \in 1..MaxPlanDays,
            nm \in {ThreeMeals, <<"Breakfast", "Lunch">>},
            ids \in IdTuples}

---------------------------------------------------------------------------
(* State machine *)

NoCall   == [op |-> "none"]
\* an empty table
NoRows   == [i \in {} |-> 1]
\* no backfill invocation in progress
NoRuns   == [r \in {} |-> NoCall]
NoResult == [ok |-> FALSE, status |-> 0, kind |-> "none", detail |-> <<>>]

Init ==
    /\ RAG_SHARED_SECRET \in Secrets
    /\ items \in Catalogs
    /\ item_nutrition = NoRows
    /\ item_ingredients = NoRows
    /\ row_order = SortedSeq(ItemIds)
    /\ item_embeddings \in EmbeddingTables(items)
    /\ item_nutrition_embeddings = NoRows
    /\ item_ingredients_embeddings = NoRows
    /\ runs = NoRuns
    /\ phase = "idle"
    /\ call = NoCall
    /\ result = NoResult
    /\ trace = <<>>

\* the body of POST /generate as the request model of a service parses it
GenerateRequest(fields, store, days, body) ==
    [userId |-> 1, store |-> store, days |-> days,
     preferences |-> Preferences(fields, body)]

\* POST /generate on the modular service (app/routes/generate_routes.py)
Generate ==
    /\ phase = "idle"
    /\ \E store \in RequestStores, days \in DaysValues, secret \in Headers,
          body \in PrefBodies, er \in EmbedReplies, lr \in LLMReplies :
        LET req == GenerateRequest(Preferences_fields, store, days, body)
            r   == generate(req, secret, er, lr)
        IN  /\ call' = [op |-> "generate", svc |-> "app", req |-> req, secret |-> secret]
            /\ result' = r.res
            /\ trace' = r.trace
    /\ phase' = "done"
    /\ UNCHANGED <<fixed, tables, runs>>

\* POST /generate on the single-file service (main.py)
MainGenerate ==
    /\ phase = "idle"
    /\ \E store \in RequestStores, days \in DaysValues, secret \in Headers,
          body \in PrefBodies, er \in EmbedReplies, lr \in LLMReplies :
        LET req == GenerateRequest(Main_Preferences_fields, store, days, body)
            r   == main_generate(req, secret, er, lr)
        IN  /\ call' = [op |-> "generate", svc |-> "main", req |-> req, secret |-> secret]
            /\ result' = r.res
            /\ trace' = r.trace
    /\ phase' = "done"
    /\ UNCHANGED <<fixed, tables, runs>>

\* the response (or error) has been sent; the service waits for the next call
Finish ==
    /\ phase = "done"
    /\ phase' = "idle"
    /\ call' = NoCall
    /\ result' = NoResult
    /\ trace' = <<>>
    /\ UNCHANGED <<fixed, tables, runs>>

Next == Generate \/ MainGenerate \/ Finish

Spec == Init /\ [][Next]_vars

---------------------------------------------------------------------------
(* SpecPlan: the validator and the verifier on their own, composed as      *)
(* generate_routes.py lines 69-73 compose them.                            *)

InitPlan ==
    /\ RAG_SHARED_SECRET = ""
    /\ items \in Catalogs
    /\ item_nutrition = NoRows
    /\ item_ingredients = NoRows
    /\ row_order = SortedSeq(ItemIds)
    /\ item_embeddings = NoRows
    /\ item_nutrition_embeddings = NoRows
    /\ item_ingredients_embeddings = NoRows
    /\ runs = NoRuns
    /\ phase = "idle"
    /\ call = NoCall
    /\ result = NoResult
    /\ trace = <<>>

\* doc = parse_and_validate_plan_json(content)
Validate ==
    /\ phase = "idle"
    /\ \E content \in PlanTexts :
        /\ call' = [op |-> "validate", content |-> content]
        /\ result' = parse_and_validate_plan_json(content)
    /\ phase' = "validated"
    /\ trace' = <<>>
    /\ UNCHANGED <<fixed, tables, runs>>

\* ids = extract_item_ids(doc); verify_item_ids_belong_to_store(store, ids)
Ground ==
    /\ phase = "validated"
    /\ result.ok
    /\ \E store \in RequestStores :
        LET doc == result.detail
            v   == verify_item_ids_belong_to_store(store, extract_item_ids(doc))
        IN  /\ call' = [op |-> "ground", content |-> call.content,
                        store |-> store, doc |-> doc]
            /\ result' = v.res
            /\ trace' = v.trace
    /\ phase' = "done"
    /\ UNCHANGED <<fixed, tables, runs>>

\* the validator raised: nothing is verified
Rejected ==
    /\ phase = "validated"
    /\ ~result.ok
    /\ phase' = "idle"
    /\ call' = NoCall
    /\ result' = NoResult
    /\ trace' = <<>>
    /\ UNCHANGED <<fixed, tables, runs>>

NextPlan == Validate \/ Ground \/ Rejected \/ Finish

SpecPlan == InitPlan /\ [][NextPlan]_vars

---------------------------------------------------------------------------
(* SpecBackfill: the backfill operations, one call at a time: the three    *)
(* routes of the modular service, the route of main.py and the script.     *)
(* A caller may send a call that succeeded once more.                      *)

\* stores a backfill is asked for: none, the default store in lower case,
\* the other store
BackfillStores == {<<>>, <<"t", "_", "j">>, <<"T", "x", "J">>}
LimitValues == 0..MaxItem
ChunkValues == 0..MaxItem

\* what the embedding provider answers to a batch: it raises, or it answers
\* the vector vec for every text
BackfillReplies ==
    {[kind |-> "raise", vec |-> 0], [kind |-> "ok", vec |-> 1], [kind |-> "ok", vec |-> 2]}
\* what it answers round by round to the script
ScriptReplies ==
    {<<[kind |-> "ok", vec |-> 1]>>, <<[kind |-> "ok", vec |-> 2]>>,
     <<[kind |-> "raise", vec |-> 0]>>,
     <<[kind |-> "ok", vec |-> 1], [kind |-> "raise", vec |-> 0]>>}

\* stored nutrition texts: the importer's JSON with parsed fields, a bare
\* raw text, the importer's JSON with nothing parsed and no raw text, and
\* with nothing parsed but the raw text (scripts/import_tj.py:205-219)
NutritionTexts ==
    <<JsonText(JObj([parsed |-> JObj([calories |-> JInt(100), serving_count |-> JInt(2)]),
                     raw    |-> JStr("Calories 100")])),
      Text("text"),
      JsonText(JObj([parsed |-> JNull, raw |-> JNull])),
      JsonText(JObj([parsed |-> JNull, raw |-> JStr("Calories 100")]))>>

\* stored ingredients texts: parsed, bare raw text, nothing parsed but the
\* raw text (scripts/import_tj.py:236-250)
IngredientsTexts ==
    <<JsonText(JObj([parsed |-> JObj([ingredients_list |->
                                          JList(<<JObj([name |-> JStr("flour")])>>),
                                      ingredients_raw |-> JStr("flour"),
                                      ingredients_count |-> JInt(1)]),
                     raw    |-> JStr("flour")])),
      Text("text"),
      JsonText(JObj([parsed |-> JNull, raw |-> JStr("flour")]))>>

\* a source table over the items S: item i holds the text i + shift of texts
SourceTable(texts, S, shift) ==
    [i \in S |-> texts[((i + shift) % Len(texts)) + 1]]

\* the source tables a catalog comes with: <<item_nutrition, item_ingredients>>
SourceTables ==
    {<<SourceTable(NutritionTexts, ItemIds, 0), NoRows>>,
     <<SourceTable(NutritionTexts, ItemIds, 2), NoRows>>,
     <<NoRows, SourceTable(IngredientsTexts, ItemIds, 0)>>,
     <<NoRows, SourceTable(IngredientsTexts, ItemIds, 1)>>}

\* a catalog of one store, and one whose first item is of another store
BackfillCatalogs ==
    {[i \in ItemIds |-> [store |-> <<"T", "_", "J">>]],
     [i \in ItemIds |-> [store |-> IF i = 1 THEN <<"T", "x", "J">> ELSE <<"T", "_", "J">>]]}

InitBackfill ==
    /\ RAG_SHARED_SECRET = "s3cret"
    /\ items \in BackfillCatalogs
    /\ \E src \in SourceTables :
        /\ item_nutrition = src[1]
        /\ item_ingredients = src[2]
    /\ row_order = SortedSeq(ItemIds)
    /\ item_embeddings = NoRows
    /\ item_nutrition_embeddings = NoRows
    /\ item_ingredients_embeddings = NoRows
    /\ runs = NoRuns
    /\ phase = "idle"
    /\ call = NoCall
    /\ result = NoResult
    /\ trace = <<>>

\* models.py: class BackfillRequest
BackfillRequest(store, limit) == [store |-> store, limit |-> limit]

\* the service is idle, or the caller repeats the call that just succeeded
Asked(route, req, secret) ==
    \/ phase = "idle"
    \/ /\ phase = "done" /\ call.op = "backfill" /\ result.ok
       /\ call.route = route /\ call.req = req /\ call.secret = secret

\* the call as recorded: before is the embedding tables as the call found
\* them; repeat tells a repeated call, and first is then what the first call
\* found and answered
BackfillCall(route, space, req, secret) ==
    [op |-> "backfill", route |-> route, space |-> space, req |-> req,
     secret |-> secret, before |-> tables, repeat |-> (phase = "done"),
     first |-> IF phase = "done"
               THEN [before |-> call.before, result |-> result]
               ELSE NoCall]

\* POST /embed/backfill/items
BackfillItems ==
    /\ \E store \in BackfillStores, limit \in LimitValues, secret \in Headers,
          reply \in BackfillReplies :
        LET req == BackfillRequest(store, limit)
        IN  /\ Asked("app:items", req, secret)
            /\ call' = BackfillCall("app:items", "items", req, secret)
            /\ \E r \in {backfill(req, secret, reply)} :
                /\ result' = r.res
                /\ trace' = r.trace
                /\ item_embeddings' = r.table
    /\ phase' = "done"
    /\ UNCHANGED <<fixed, item_nutrition_embeddings, item_ingredients_embeddings, runs>>

\* POST /embed/backfill/nutrition
BackfillNutrition ==
    /\ \E store \in BackfillStores, limit \in LimitValues, secret \in Headers,
          reply \in BackfillReplies :
        LET req == BackfillRequest(store, limit)
        IN  /\ Asked("app:nutrition", req, secret)
            /\ call' = BackfillCall("app:nutrition", "nutrition", req, secret)
            /\ \E r \in {backfill_nutrition(req, secret, reply)} :
                /\ result' = r.res
                /\ trace' = r.trace
                /\ item_nutrition_embeddings' = r.table
    /\ phase' = "done"
    /\ UNCHANGED <<fixed, item_embeddings, item_ingredients_embeddings, runs>>

\* POST /embed/backfill/ingredients
BackfillIngredients ==
    /\ \E store \in BackfillStores, limit \in LimitValues, secret \in Headers,
          reply \in BackfillReplies :
        LET req == BackfillRequest(store, limit)
        IN  /\ Asked("app:ingredients", req, secret)
            /\ call' = BackfillCall("app:ingredients", "ingredients", req, secret)
            /\ \E r \in {backfill_ingredients(req, secret, reply)} :
                /\ result' = r.res
                /\ trace' = r.trace
                /\ item_ingredients_embeddings' = r.table
    /\ phase' = "done"
    /\ UNCHANGED <<fixed, item_embeddings, item_nutrition_embeddings, runs>>

\* POST /embed/backfill on the single-file service (main.py)
MainBackfill ==
    /\ \E store \in BackfillStores, limit \in LimitValues, secret \in Headers,
          reply \in BackfillReplies :
        LET req == BackfillRequest(store, limit)
        IN  /\ Asked("main", req, secret)
            /\ call' = BackfillCall("main", "items", req, secret)
            /\ \E r \in {backfill_embeddings(req, secret, reply)} :
                /\ result' = r.res
                /\ trace' = r.trace
                /\ item_embeddings' = r.table
    /\ phase' = "done"
    /\ UNCHANGED <<fixed, item_nutrition_embeddings, item_ingredients_embeddings, runs>>

\* python3 backfill_item_embeddings.py --store .. --limit .. --chunk ..
ScriptBackfill ==
    /\ \E store \in BackfillStores, limit \in LimitValues, chunk \in ChunkValues,
          replies \in ScriptReplies :
        LET args == [store |-> store, limit |-> limit, chunk |-> chunk]
        IN  /\ Asked("script", args, "<None>")
            /\ call' = BackfillCall("script", "items", args, "<None>")
            /\ \E r \in {script_main(args, replies)} :
                /\ result' = r.res
                /\ trace' = r.trace
                /\ item_embeddings' = r.table
    /\ phase' = "done"
    /\ UNCHANGED <<fixed, item_nutrition_embeddings, item_ingredients_embeddings, runs>>

\* GET /health
Health ==
    /\ phase = "idle"
    /\ \E secret \in Headers :
        call' = [op |-> "health", secret |-> secret]
    /\ result' = health
    /\ trace' = <<>>
    /\ phase' = "done"
    /\ UNCHANGED <<fixed, tables, runs>>

NextBackfill ==
    \/ BackfillItems \/ BackfillNutrition \/ BackfillIngredients
    \/ MainBackfill \/ ScriptBackfill \/ Finish

SpecBackfill == InitBackfill /\ [][NextBackfill]_vars

---------------------------------------------------------------------------
(* SpecRace: concurrent invocations of one backfill route.  The handler of *)
(* embed_routes.py runs in three steps, each on a connection of its own:   *)
(* the select of the missing rows, the provider call, the upsert with its  *)
(* commit.  Steps of different invocations interleave freely.  The upsert  *)
(* is one transaction; its row locks make two upserts of the same rows     *)
(* take effect in the order of their commits.                              *)

\* invocations in one behaviour
MaxRuns == 2
RunIds == 1..MaxRuns

RaceStores == {<<>>, <<"t", "_", "j">>}
RaceLimits == {1, MaxItem}
Spaces == {"items", "nutrition", "ingredients"}

InitRace ==
    /\ RAG_SHARED_SECRET = ""
    /\ items \in BackfillCatalogs
    /\ item_nutrition = SourceTable(NutritionTexts, ItemIds, 0)
    /\ item_ingredients = SourceTable(IngredientsTexts, ItemIds, 1)
    /\ row_order = SortedSeq(ItemIds)
    /\ item_embeddings = NoRows
    /\ item_nutrition_embeddings = NoRows
    /\ item_ingredients_embeddings = NoRows
    /\ runs = [r \in RunIds |-> [pc |-> "idle"]]
    /\ phase = "idle"
    /\ call = NoCall
    /\ result = NoResult
    /\ trace = <<>>

\* the invocations that have started
Started == {q \in RunIds : runs[q].pc # "idle"}

\* auth(x_rag_secret); rows = fetch(...); if not rows: return (0, 0)
RunSelect(r) ==
    /\ runs[r].pc = "idle"
    /\ \E space \in Spaces, store \in RaceStores, limit \in RaceLimits :
        LET rows == FetchOf(space, store, limit).res IN
        /\ auth("<None>").ok
        /\ \A q \in Started : runs[q].space = space
        /\ runs' = [runs EXCEPT ![r] =
                      [pc |-> IF rows = <<>> THEN "done" ELSE "selected",
                       space |-> space, store |-> store, limit |-> limit,
                       rows |-> rows, vectors |-> <<>>, updated |-> 0,
                       after |-> {q \in RunIds : runs[q].pc = "done"}]]
    /\ UNCHANGED <<fixed, tables, phase, call, result, trace>>

\* texts = [...]; vectors = embed_texts(texts)
RunEmbed(r) ==
    /\ runs[r].pc = "selected"
    /\ \E reply \in BackfillReplies :
        LET texts == DocsOf(runs[r].space, runs[r].rows)
            e == embed_texts(texts.detail, reply)
        IN  runs' = [runs EXCEPT ![r] =
                       IF texts.ok /\ e.res.ok
                       THEN [@ EXCEPT !.pc = "embedded", !.vectors = e.res.detail]
                       ELSE [@ EXCEPT !.pc = "failed"]]
    /\ UNCHANGED <<fixed, tables, phase, call, result, trace>>

\* updated = upsert_*(rows, vectors): the loop and its commit; return
RunUpsert(r) ==
    /\ runs[r].pc = "embedded"
    /\ LET u == UpsertOf(runs[r].space, runs[r].rows, runs[r].vectors) IN
        /\ runs' = [runs EXCEPT ![r] =
                      [@ EXCEPT !.pc = "done", !.updated = u.res,
                                !.after = {q \in RunIds : runs[q].pc = "done"}]]
        /\ item_embeddings' =
              IF runs[r].space = "items" THEN u.table ELSE item_embeddings
        /\ item_nutrition_embeddings' =
              IF runs[r].space = "nutrition" THEN u.table ELSE item_nutrition_embeddings
        /\ item_ingredients_embeddings' =
              IF runs[r].space = "ingredients" THEN u.table ELSE item_ingredients_embeddings
    /\ UNCHANGED <<fixed, phase, call, result, trace>>

NextRace == \E r \in RunIds : RunSelect(r) \/ RunEmbed(r) \/ RunUpsert(r)

SpecRace == InitRace /\ [][NextRace]_vars

---------------------------------------------------------------------------
(* SpecRetrieve: retrieve_candidates on its own, over catalogs whose       *)
(* embeddings lie at different distances of the query vector and whose     *)
(* items come with or without nutrition and ingredients rows.              *)

\* stored embeddings; 0 and 2 are at the same distance of the query
RetrieveVectors == {0, 1, 2}
QueryVectors == {1}
\* how many candidates are asked for
KValues == {0, 1, MaxItem, RETRIEVAL_K}

\* the orders in which the database may scan the items
ScanOrders ==
    {o \in [1..MaxItem -> ItemIds] : \A a, b \in 1..MaxItem : o[a] = o[b] => a = b}

\* source tables over part of the catalog, in every stored representation
RetrieveSources ==
    {<<SourceTable(NutritionTexts, ItemIds, shift),
       SourceTable(IngredientsTexts, ItemIds \ {1}, shift)>> : shift \in 0..3}
    \cup {<<NoRows, NoRows>>}

InitRetrieve ==
    /\ RAG_SHARED_SECRET = ""
    /\ items \in Catalogs
    /\ \E src \in RetrieveSources :
        /\ item_nutrition = src[1]
        /\ item_ingredients = src[2]
    /\ row_order \in ScanOrders
    /\ item_embeddings \in UNION {[S -> RetrieveVectors] : S \in SUBSET (DOMAIN items)}
    /\ item_nutrition_embeddings = NoRows
    /\ item_ingredients_embeddings = NoRows
    /\ runs = NoRuns
    /\ phase = "idle"
    /\ call = NoCall
    /\ result = NoResult
    /\ trace = <<>>

\* candidates = retrieve_candidates(store, query_vec, k)
Retrieve ==
    /\ phase = "idle"
    /\ \E store \in RequestStores, query_vec \in QueryVectors, k \in KValues :
        LET c == retrieve_candidates(store, query_vec, k) IN
        /\ call' = [op |-> "retrieve", store |-> store, query_vec |-> query_vec, k |-> k]
        /\ result' = c.res
        /\ trace' = c.trace
    /\ phase' = "done"
    /\ UNCHANGED <<fixed, tables, runs>>

NextRetrieve == Retrieve \/ Finish

SpecRetrieve == InitRetrieve /\ [][NextRetrieve]_vars

---------------------------------------------------------------------------
(* SpecService: every HTTP route of the two services, one call at a time,  *)
(* on one catalog of two stores whose first item has a nutrition row.      *)

InitService ==
    /\ RAG_SHARED_SECRET \in Secrets
    /\ items = [i \in ItemIds |->
                  [store |-> IF i = 1 THEN <<"T", "x", "J">> ELSE <<"T", "_", "J">>]]
    /\ item_nutrition = SourceTable(NutritionTexts, {1}, 0)
    /\ item_ingredients = NoRows
    /\ row_order = SortedSeq(ItemIds)
    /\ item_embeddings = NoRows
    /\ item_nutrition_embeddings = NoRows
    /\ item_ingredients_embeddings = NoRows
    /\ runs = NoRuns
    /\ phase = "idle"
    /\ call = NoCall
    /\ result = NoResult
    /\ trace = <<>>

NextService ==
    \/ Generate \/ MainGenerate
    \/ BackfillItems \/ BackfillNutrition \/ BackfillIngredients \/ MainBackfill
    \/ Health \/ Finish

SpecService == InitService /\ [][NextService]_vars

---------------------------------------------------------------------------
(* SpecRepeat: an operator's job invokes one backfill route for one store  *)
(* again and again on a fixed catalog, with a limit of at least one.  The  *)
(* handler runs in its three steps (select, provider call, upsert), then   *)
(* returns.  The provider may raise or answer one vector too few.  The     *)
(* fairness condition: a handler that has started runs on to its return,   *)
(* the job keeps invoking, and invocations the provider answers in full    *)
(* keep happening.                                                         *)

RepeatStores == {<<>>, <<"t", "_", "j">>}
RepeatLimits == 1..MaxItem
RepeatReplies ==
    {[kind |-> "raise", vec |-> 0], [kind |-> "ok", vec |-> 1],
     [kind |-> "short", vec |-> 1]}

\* the job: the route and the store it is configured for
Job == runs[1]

InitRepeat ==
    /\ RAG_SHARED_SECRET = "s3cret"
    /\ items \in BackfillCatalogs
    /\ \E src \in SourceTables :
        /\ item_nutrition = src[1]
        /\ item_ingredients = src[2]
    /\ row_order = SortedSeq(ItemIds)
    /\ item_embeddings = NoRows
    /\ item_nutrition_embeddings = NoRows
    /\ item_ingredients_embeddings = NoRows
    /\ \E space \in Spaces, store \in RepeatStores :
        runs = [r \in {1} |-> [pc |-> "idle", space |-> space, store |-> store,
                               rows |-> <<>>, vectors |-> <<>>]]
    /\ phase = "idle"
    /\ call = NoCall
    /\ result = NoResult
    /\ trace = <<>>

\* auth(x_rag_secret); rows = fetch(...); if not rows: return (0, 0)
RepeatSelect ==
    /\ Job.pc = "idle"
    /\ auth(RAG_SHARED_SECRET).ok
    /\ \E limit \in RepeatLimits :
        \E fetched \in {FetchOf(Job.space, Job.store, limit)} :
            /\ call' = BackfillCall("app:" \o Job.space, Job.space,
                                    BackfillRequest(Job.store, limit), RAG_SHARED_SECRET)
            /\ trace' = fetched.trace
            /\ IF fetched.res = <<>>
               THEN /\ runs' = [runs EXCEPT ![1].pc = "returned"]
                    /\ result' = BackfillResponse(0, 0)
                    /\ phase' = "done"
               ELSE /\ runs' = [runs EXCEPT ![1].pc = "selected",
                                            ![1].rows = fetched.res]
                    /\ result' = NoResult
                    /\ phase' = "busy"
    /\ UNCHANGED <<fixed, tables>>

\* texts = [...]; vectors = embed_texts(texts)
RepeatEmbed(reply) ==
    /\ Job.pc = "selected"
    /\ \E texts \in {DocsOf(Job.space, Job.rows)} :
        \E e \in {embed_texts(texts.detail, reply)} :
            /\ trace' = IF texts.ok THEN trace \o e.trace ELSE trace
            /\ IF texts.ok /\ e.res.ok
               THEN /\ runs' = [runs EXCEPT ![1].pc = "embedded",
                                            ![1].vectors = e.res.detail]
                    /\ UNCHANGED <<result, phase>>
               ELSE /\ runs' = [runs EXCEPT ![1].pc = "returned"]
                    /\ result' = IF texts.ok THEN e.res ELSE texts
                    /\ phase' = "done"
    /\ UNCHANGED <<fixed, tables, call>>

\* updated = upsert_*(rows, vectors); return BackfillResponse(updated, 0)
RepeatUpsert ==
    /\ Job.pc = "embedded"
    /\ \E u \in {UpsertOf(Job.space, Job.rows, Job.vectors)} :
        /\ item_embeddings' =
              IF Job.space = "items" THEN u.table ELSE item_embeddings
        /\ item_nutrition_embeddings' =
              IF Job.space = "nutrition" THEN u.table ELSE item_nutrition_embeddings
        /\ item_ingredients_embeddings' =
              IF Job.space = "ingredients" THEN u.table ELSE item_ingredients_embeddings
        /\ result' = BackfillResponse(u.res, 0)
        /\ trace' = trace \o u.trace
    /\ runs' = [runs EXCEPT ![1].pc = "returned"]
    /\ phase' = "done"
    /\ UNCHANGED <<fixed, call>>

\* the response is sent; the job will invoke the route again
RepeatReturn ==
    /\ Job.pc = "returned"
    /\ runs' = [runs EXCEPT ![1].pc = "idle", ![1].rows = <<>>, ![1].vectors = <<>>]
    /\ phase' = "idle"
    /\ call' = NoCall
    /\ result' = NoResult
    /\ trace' = <<>>
    /\ UNCHANGED <<fixed, tables>>

NextRepeat ==
    \/ RepeatSelect
    \/ \E reply \in RepeatReplies : RepeatEmbed(reply)
    \/ RepeatUpsert
    \/ RepeatReturn

SpecRepeat ==
    /\ InitRepeat
    /\ [][NextRepeat]_vars
    /\ WF_vars(RepeatSelect)
    /\ WF_vars(RepeatUpsert)
    /\ WF_vars(RepeatReturn)
    /\ WF_vars(\E reply \in RepeatReplies : RepeatEmbed(reply))
    /\ SF_vars(RepeatEmbed([kind |-> "ok", vec |-> 1]))

---------------------------------------------------------------------------
(* SpecBatch: the first backfill on a catalog with more unembedded rows    *)
(* than the configured batch size, with limits below, at and above that    *)
(* size.                                                                   *)

\* scripts/backfill_item_embeddings.py: BATCH_SIZE = int(os.getenv("BATCH_SIZE", "128")),
\* the only batch size the repository configures
BATCH_SIZE == 128
\* models.py: BackfillRequest.limit: int = 200
DEFAULT_LIMIT == 200

\* catalogs of one store, of MaxItem and of BATCH_SIZE + 1 items, each with
\* a nutrition and an ingredients row
BatchCatalogs ==
    {[i \in 1..n |-> [store |-> <<"T", "_", "J">>]] : n \in {MaxItem, BATCH_SIZE + 1}}

BatchLimits == {1, BATCH_SIZE, BATCH_SIZE + 1, DEFAULT_LIMIT}
BatchChunks == {64, BATCH_SIZE}
BatchStores == {<<>>, <<"t", "_", "j">>}
BatchReplies == {[kind |-> "raise", vec |-> 0], [kind |-> "ok", vec |-> 1]}

InitBatch ==
    /\ RAG_SHARED_SECRET = ""
    /\ items \in BatchCatalogs
    /\ item_nutrition = SourceTable(NutritionTexts, DOMAIN items, 0)
    /\ item_ingredients = SourceTable(IngredientsTexts, DOMAIN items, 0)
    /\ row_order = SortedSeq(DOMAIN items)
    /\ item_embeddings = NoRows
    /\ item_nutrition_embeddings = NoRows
    /\ item_ingredients_embeddings = NoRows
    /\ runs = NoRuns
    /\ phase = "idle"
    /\ call = NoCall
    /\ result = NoResult
    /\ trace = <<>>

\* no embedding has been written yet
Fresh ==
    /\ phase = "idle"
    /\ item_embeddings = NoRows
    /\ item_nutrition_embeddings = NoRows
    /\ item_ingredients_embeddings = NoRows

\* POST /embed/backfill/<space> on the modular service
BatchRoute ==
    /\ Fresh
    /\ \E space \in Spaces, store \in BatchStores, limit \in BatchLimits,
          reply \in BatchReplies :
        LET req == BackfillRequest(store, limit) IN
        /\ call' = BackfillCall("app:" \o space, space, req, "<None>")
        /\ \E r \in {backfill_route(space, req, "<None>", reply)} :
            /\ result' = r.res
            /\ trace' = r.trace
            /\ item_embeddings' =
                  IF space = "items" THEN r.table ELSE item_embeddings
            /\ item_nutrition_embeddings' =
                  IF space = "nutrition" THEN r.table ELSE item_nutrition_embeddings
            /\ item_ingredients_embeddings' =
                  IF space = "ingredients" THEN r.table ELSE item_ingredients_embeddings
    /\ phase' = "done"
    /\ UNCHANGED <<fixed, runs>>

\* POST /embed/backfill on the single-file service
BatchMain ==
    /\ Fresh
    /\ \E store \in BatchStores, limit \in BatchLimits, reply \in BatchReplies :
        LET req == BackfillRequest(store, limit) IN
        /\ call' = BackfillCall("main", "items", req, "<None>")
        /\ \E r \in {backfill_embeddings(req, "<None>", reply)} :
            /\ result' = r.res
            /\ trace' = r.trace
            /\ item_embeddings' = r.table
    /\ phase' = "done"
    /\ UNCHANGED <<fixed, item_nutrition_embeddings, item_ingredients_embeddings, runs>>

\* python3 backfill_item_embeddings.py --store .. --limit .. --chunk ..
BatchScript ==
    /\ Fresh
    /\ \E store \in BatchStores, limit \in BatchLimits, chunk \in BatchChunks,
          reply \in BatchReplies :
        LET args == [store |-> store, limit |-> limit, chunk |-> chunk] IN
        /\ call' = BackfillCall("script", "items", args, "<None>")
        /\ \E r \in {script_main(args, <<reply>>)} :
            /\ result' = r.res
            /\ trace' = r.trace
            /\ item_embeddings' = r.table
    /\ phase' = "done"
    /\ UNCHANGED <<fixed, item_nutrition_embeddings, item_ingredients_embeddings, runs>>

NextBatch == BatchRoute \/ BatchMain \/ BatchScript \/ Finish

SpecBatch == InitBatch /\ [][NextBatch]_vars

---------------------------------------------------------------------------

(* SpecDocs: the document builders of embedding.py called on their own, on *)
(* source records of every stored shape.                                   *)

\* an already-decoded object in the column (no str)
Decoded(j) == [kind |-> "decoded", value |-> j]

\* what "raw" holds in the importer's JSON
RawValues == {JNull, JStr("raw text")}

\* what "parsed" holds in a nutrition record: null, empty, populated, with
\* nothing but the serving count, with a zero, or a bare string
NutritionParsed ==
    {JNull, JObj([k \in {} |-> JNull]),
     JObj([calories |-> JInt(100), serving_count |-> JInt(2)]),
     JObj([serving_count |-> JInt(2)]),
     JObj([calories |-> JInt(0)]),
     JStr("Calories 100")}

NutritionRecords ==
    {Text("empty"), Text("text"),
     Decoded(JObj([parsed |-> JObj([calories |-> JInt(100)]), raw |-> JNull])),
     JsonText(JInt(1)), JsonText(JList(<<>>)),
     JsonText(JObj([raw |-> JStr("raw text")]))}
    \cup {JsonText(JObj([parsed |-> p, raw |-> r])) :
            p \in NutritionParsed, r \in RawValues}

\* entries of ingredients_list: objects, sub-ingredients, an object whose
\* name is null, and plain strings
IngredientEntries ==
    {JObj([name |-> JStr("flour")]),
     JObj([name |-> JStr("salt"), is_sub_ingredient |-> [t |-> "bool", v |-> TRUE],
           parent |-> JStr("flour")]),
     JObj([name |-> JNull]),
     JStr("flour")}

\* entries of contains_less_than: objects with object or plain-string
\* ingredients, and plain strings
ContainsEntries ==
    {JObj([percentage |-> JInt(2), ingredients |-> JList(<<JObj([name |-> JStr("salt")])>>)]),
     JObj([percentage |-> JInt(2), ingredients |-> JList(<<JStr("salt")>>)]),
     JStr("salt")}

IngredientsParsed ==
    {JNull, JObj([k \in {} |-> JNull]), JStr("flour"),
     JObj([ingredients_raw |-> JStr("flour")])}
    \cup {JObj([ingredients_list |-> JList(<<e>>)]) : e \in IngredientEntries}
    \cup {JObj([ingredients_list |-> JList(<<>>),
                contains_less_than |-> JList(<<c>>)]) : c \in ContainsEntries}

IngredientsRecords ==
    {Text("empty"), Text("text"),
     Decoded(JObj([parsed |-> JObj([ingredients_raw |-> JStr("flour")]), raw |-> JNull])),
     JsonText(JInt(1)), JsonText(JList(<<>>)),
     JsonText(JObj([raw |-> JStr("raw text")]))}
    \cup {JsonText(JObj([parsed |-> p, raw |-> r])) :
            p \in IngredientsParsed, r \in RawValues}

\* what tags_json holds: nothing, a tag, a tag outside ASCII
TagValues == {None, JList(<<JStr("vegan")>>), JList(<<JStr("é")>>)}

\* catalogs of one store whose rows carry tags_json
DocCatalogs ==
    [ItemIds -> [store : {<<"T", "_", "J">>}, tags_json : TagValues]]

InitDocs ==
    /\ RAG_SHARED_SECRET = ""
    /\ items \in DocCatalogs
    /\ item_nutrition = NoRows
    /\ item_ingredients = NoRows
    /\ row_order = SortedSeq(ItemIds)
    /\ item_embeddings = NoRows
    /\ item_nutrition_embeddings = NoRows
    /\ item_ingredients_embeddings = NoRows
    /\ runs = NoRuns
    /\ phase = "idle"
    /\ call = NoCall
    /\ result = NoResult
    /\ trace = <<>>

\* the builders of the three writers of item_embeddings
ItemBuilders == {"item_doc", "main:item_doc", "item_to_text"}

\* item_doc(i) / item_to_text(i) on a row of the catalog
BuildItemDoc ==
    /\ phase = "idle"
    /\ \E i \in DOMAIN items, builder \in ItemBuilders :
        /\ call' = [op |-> "doc", builder |-> builder, record |-> i]
        /\ result' = Value(CASE builder = "item_doc"      -> item_doc(i)
                             [] builder = "main:item_doc" -> main_item_doc(i)
                             [] OTHER                     -> item_to_text(i))
    /\ phase' = "done"
    /\ trace' = <<>>
    /\ UNCHANGED <<fixed, tables, runs>>

\* nutrition_doc(r) on a row of item_nutrition
BuildNutritionDoc ==
    /\ phase = "idle"
    /\ \E record \in NutritionRecords :
        /\ call' = [op |-> "doc", builder |-> "nutrition_doc", record |-> record]
        /\ result' = nutrition_doc(record)
    /\ phase' = "done"
    /\ trace' = <<>>
    /\ UNCHANGED <<fixed, tables, runs>>

\* ingredients_doc(r) on a row of item_ingredients
BuildIngredientsDoc ==
    /\ phase = "idle"
    /\ \E record \in IngredientsRecords :
        /\ call' = [op |-> "doc", builder |-> "ingredients_doc", record |-> record]
        /\ result' = ingredients_doc(record)
    /\ phase' = "done"
    /\ trace' = <<>>
    /\ UNCHANGED <<fixed, tables, runs>>

NextDocs == BuildItemDoc \/ BuildNutritionDoc \/ BuildIngredientsDoc \/ Finish

SpecDocs == InitDocs /\ [][NextDocs]_vars

---------------------------------------------------------------------------

(* SpecVerify: verify_item_ids_belong_to_store called on its own, with id  *)
(* lists that are empty, repeat ids, are out of order, and cite more       *)
(* unknown ids than one report holds.                                      *)

\* the largest id a list cites: past MAX_REPORTED + MaxItem, so that more
\* than MAX_REPORTED cited ids can be missing
MaxCited == 28

\* n, n-1, .., 1
Descending(n) == [k \in 1..n |-> n + 1 - k]

IdLists ==
    {<<>>, <<1>>, <<2, 1, 2>>, <<3, 1, 3>>, <<2, 2>>,
     Descending(MaxCited), Descending(MaxCited) \o <<MaxCited, 1>>}

InitVerify ==
    /\ RAG_SHARED_SECRET = ""
    /\ items \in Catalogs
    /\ item_nutrition = NoRows
    /\ item_ingredients = NoRows
    /\ row_order = SortedSeq(ItemIds)
    /\ item_embeddings = NoRows
    /\ item_nutrition_embeddings = NoRows
    /\ item_ingredients_embeddings = NoRows
    /\ runs = NoRuns
    /\ phase = "idle"
    /\ call = NoCall
    /\ result = NoResult
    /\ trace = <<>>

\* verify_item_ids_belong_to_store(store, item_ids)
Verify ==
    /\ phase = "idle"
    /\ \E store \in RequestStores, item_ids \in IdLists :
        /\ call' = [op |-> "verify", store |-> store, item_ids |-> item_ids]
        /\ \E v \in {verify_item_ids_belong_to_store(store, item_ids)} :
            /\ result' = v.res
            /\ trace' = v.trace
    /\ phase' = "done"
    /\ UNCHANGED <<fixed, tables, runs>>

NextVerify == Verify \/ Finish

SpecVerify == InitVerify /\ [][NextVerify]_vars

---------------------------------------------------------------------------

(* SpecPool: db.py. The module global _pool and the pools ever created,    *)
(* under threads that call init_pool, close_pool and get_conn; one step    *)
(* per read or write of the global and per call into the pool.             *)

MaxThreads == 2
MaxPools   == 3
Threads    == 1..MaxThreads
PoolOps    == {"init_pool", "close_pool", "get_conn"}

\* a thread outside db.py; err is what its last call raised
IdleThread == [pc |-> "idle", op |-> "none", new |-> 0, conn |-> 0,
               from_open |-> TRUE, err |-> ""]

\* _pool: ConnectionPool | None = None ; 0 stands for None, pools[k] is the
\* state of the k-th ConnectionPool constructed; url is DATABASE_URL being set
InitPool ==
    /\ RAG_SHARED_SECRET = ""
    /\ items = NoRows
    /\ item_nutrition = NoRows
    /\ item_ingredients = NoRows
    /\ row_order = <<>>
    /\ item_embeddings = NoRows
    /\ item_nutrition_embeddings = NoRows
    /\ item_ingredients_embeddings = NoRows
    /\ \E url \in BOOLEAN :
        runs = [pool |-> 0, pools |-> <<>>, url |-> url,
                th |-> [t \in Threads |-> IdleThread]]
    /\ phase = "idle"
    /\ call = NoCall
    /\ result = NoResult
    /\ trace = <<>>

\* the thread t moves to pc with the fields of upd changed
Moved(t, upd) == [runs.th EXCEPT ![t] = upd]

\* a thread enters init_pool(), close_pool() or get_conn()
PoolCall(t, op) ==
    /\ runs.th[t].pc = "idle"
    /\ runs' = [runs EXCEPT !.th = Moved(t,
                  [IdleThread EXCEPT !.op = op,
                       !.pc = CASE op = "init_pool"  -> "init:url"
                                [] op = "close_pool" -> "close:test"
                                [] OTHER             -> "get:test"])]
    /\ UNCHANGED <<fixed, tables, phase, call, result, trace>>

\* if not DATABASE_URL: raise RuntimeError("DATABASE_URL is not set")
InitUrl(t) ==
    /\ runs.th[t].pc = "init:url"
    /\ runs' = [runs EXCEPT !.th = Moved(t,
                  IF runs.url
                  THEN [runs.th[t] EXCEPT !.pc = "init:create"]
                  ELSE [IdleThread EXCEPT !.err = "RuntimeError"])]
    /\ UNCHANGED <<fixed, tables, phase, call, result, trace>>

\* ConnectionPool(DATABASE_URL, min_size=2, max_size=10, ...): the
\* constructor opens the new pool
InitCreate(t) ==
    /\ runs.th[t].pc = "init:create"
    /\ Len(runs.pools) < MaxPools
    /\ runs' = [runs EXCEPT !.pools = Append(runs.pools, "open"),
                            !.th = Moved(t, [runs.th[t] EXCEPT !.pc = "init:assign",
                                                 !.new = Len(runs.pools) + 1])]
    /\ UNCHANGED <<fixed, tables, phase, call, result, trace>>

\* _pool = <the new pool>; get_conn goes on to use the global
InitAssign(t) ==
    /\ runs.th[t].pc = "init:assign"
    /\ runs' = [runs EXCEPT !.pool = runs.th[t].new,
                            !.th = Moved(t,
                               IF runs.th[t].op = "get_conn"
                               THEN [runs.th[t] EXCEPT !.pc = "get:use"]
                               ELSE IdleThread)]
    /\ UNCHANGED <<fixed, tables, phase, call, result, trace>>

\* if _pool:
CloseTest(t) ==
    /\ runs.th[t].pc = "close:test"
    /\ runs' = [runs EXCEPT !.th = Moved(t,
                  IF runs.pool = 0 THEN IdleThread
                  ELSE [runs.th[t] EXCEPT !.pc = "close:close"])]
    /\ UNCHANGED <<fixed, tables, phase, call, result, trace>>

\* _pool.close(): the global is read again; None has no close
CloseClose(t) ==
    /\ runs.th[t].pc = "close:close"
    /\ runs' = IF runs.pool = 0
               THEN [runs EXCEPT !.th = Moved(t,
                        [IdleThread EXCEPT !.err = "AttributeError"])]
               ELSE [runs EXCEPT !.pools[runs.pool] = "closed",
                                 !.th = Moved(t, [runs.th[t] EXCEPT !.pc = "close:clear"])]
    /\ UNCHANGED <<fixed, tables, phase, call, result, trace>>

\* _pool = None
CloseClear(t) ==
    /\ runs.th[t].pc = "close:clear"
    /\ runs' = [runs EXCEPT !.pool = 0, !.th = Moved(t, IdleThread)]
    /\ UNCHANGED <<fixed, tables, phase, call, result, trace>>

\* if _pool is None: init_pool()
GetTest(t) ==
    /\ runs.th[t].pc = "get:test"
    /\ runs' = [runs EXCEPT !.th = Moved(t,
                  [runs.th[t] EXCEPT !.pc = IF runs.pool = 0 THEN "init:url"
                                            ELSE "get:use"])]
    /\ UNCHANGED <<fixed, tables, phase, call, result, trace>>

\* with _pool.connection() as conn: the global is read again; None has no
\* connection(), and a closed pool raises PoolClosed
GetUse(t) ==
    /\ runs.th[t].pc = "get:use"
    /\ runs' = [runs EXCEPT !.th = Moved(t,
                  CASE runs.pool = 0 ->
                         [IdleThread EXCEPT !.err = "AttributeError"]
                    [] runs.pool # 0 /\ runs.pools[runs.pool] = "closed" ->
                         [IdleThread EXCEPT !.err = "PoolClosed"]
                    [] OTHER ->
                         [runs.th[t] EXCEPT !.pc = "get:held", !.conn = runs.pool,
                              !.from_open = (runs.pools[runs.pool] = "open")])]
    /\ UNCHANGED <<fixed, tables, phase, call, result, trace>>

\* register_vector(conn); yield conn; the with block ends and the
\* connection goes back to its pool
GetRelease(t) ==
    /\ runs.th[t].pc = "get:held"
    /\ runs' = [runs EXCEPT !.th = Moved(t, IdleThread)]
    /\ UNCHANGED <<fixed, tables, phase, call, result, trace>>

NextPool ==
    \E t \in Threads :
        \/ \E op \in PoolOps : PoolCall(t, op)
        \/ InitUrl(t)
        \/ InitCreate(t)
        \/ InitAssign(t)
        \/ CloseTest(t)
        \/ CloseClose(t)
        \/ CloseClear(t)
        \/ GetTest(t)
        \/ GetUse(t)
        \/ GetRelease(t)

SpecPool == InitPool /\ [][NextPool]_vars

---------------------------------------------------------------------------

(* Properties *)

GenDone == phase = "done" /\ call.op = "generate"
Validated == phase = "validated" /\ call.op = "validate"
Grounded == phase = "done" /\ call.op = "ground"

\* the request carries the configured secret, or none is configured
Authorized == RAG_SHARED_SECRET = "" \/ call.secret = RAG_SHARED_SECRET

EmbedFailed ==
    \E i \in DOMAIN trace : trace[i].ev = "embed" /\ trace[i].data.reply.kind = "raise"

\* the text the generative provider answered in this request, if it was asked
LlmAnswered(kinds) ==
    \E i \in DOMAIN trace : trace[i].ev = "llm" /\ trace[i].data.kind \in kinds

\* items of the catalog sold under the store, compared ignoring letter case
InStore(id, store) ==
    id \in DOMAIN items /\ EqualsIgnoreCase(items[id].store, store)

\* the plan entries of a response's planJson (none when it has no plan list)
ResponsePlan(body) ==
    IF Has(body.planJson, "plan") /\ IsList(body.planJson.v.plan)
    THEN body.planJson.v.plan.v
    ELSE <<>>

(* C1: every item id of a plan that passed validation and grounding for a  *)
(* requested store is the id of a catalog item whose store equals the      *)
(* requested store ignoring letter case.                                   *)
C1_AcceptedIdsInStore ==
    (Grounded /\ result.ok) =>
        \A id \in Range(extract_item_ids(call.doc)) : InStore(id, call.store)

\* the days, meals and item lists of a text, read off the raw JSON
RawPlan(content) ==
    IF /\ content.kind = "json" /\ IsObj(content.value)
       /\ Has(content.value, "plan") /\ IsList(content.value.v.plan)
    THEN content.value.v.plan.v
    ELSE <<>>
RawMeals(day) ==
    IF IsObj(day) /\ Has(day, "meals") /\ IsList(day.v.meals)
    THEN day.v.meals.v
    ELSE <<>>
RawNameOk(meal) ==
    /\ IsObj(meal) /\ Has(meal, "name") /\ IsStr(meal.v.name)
    /\ meal.v.name.v \in {"Breakfast", "Lunch", "Dinner"}
RawItemCountOk(meal) ==
    /\ IsObj(meal) /\ Has(meal, "items") /\ IsList(meal.v.items)
    /\ Len(meal.v.items.v) >= 1 /\ Len(meal.v.items.v) <= 8
RawViolation(content) ==
    \E d \in DOMAIN RawPlan(content) :
        LET ms == RawMeals(RawPlan(content)[d]) IN
        \/ Len(ms) # 3
        \/ \E m \in DOMAIN ms : ~RawNameOk(ms[m]) \/ ~RawItemCountOk(ms[m])

(* C2: a plan accepted by parse_and_validate_plan_json has exactly three   *)
(* meals in every day, every meal name is Breakfast, Lunch or Dinner and   *)
(* every meal has 1..8 items; a text in which one day or one meal breaks   *)
(* any of these is rejected as a whole with the schema error.              *)
C2_AcceptedShape ==
    Validated =>
        /\ result.ok =>
            \A d \in DOMAIN result.detail.plan :
                LET meals == result.detail.plan[d].meals IN
                /\ Len(meals) = 3
                /\ \A m \in DOMAIN meals :
                    /\ meals[m].name \in {"Breakfast", "Lunch", "Dinner"}
                    /\ Len(meals[m].items) >= 1
                    /\ Len(meals[m].items) <= 8
        /\ RawViolation(call.content) =>
            ~result.ok /\ result.kind = "schema_invalid"

\* an accepted two-day plan one of whose meals has the full eight items
C2_Witness ==
    /\ Validated /\ result.ok
    /\ Len(result.detail.plan) = 2
    /\ \E d \in DOMAIN result.detail.plan :
        \E m \in DOMAIN result.detail.plan[d].meals :
            Len(result.detail.plan[d].meals[m].items) = 8

(* C3: in every accepted plan each day carries each of Breakfast, Lunch    *)
(* and Dinner exactly once.                                                *)
C3_EachMealOnce ==
    (Validated /\ result.ok) =>
        \A d \in DOMAIN result.detail.plan :
            \A n \in {"Breakfast", "Lunch", "Dinner"} :
                Cardinality({m \in DOMAIN result.detail.plan[d].meals :
                                result.detail.plan[d].meals[m].name = n}) = 1

(* C4: a /generate request with days = d that returns a response returns   *)
(* exactly d DayPlan entries in its plan.                                  *)
C4_DaysMatch ==
    (GenDone /\ result.ok) =>
        Len(ResponsePlan(result.detail)) = call.req.days

(* C5: when the requested store has no embedded item, an authorized        *)
(* /generate request with days in range (and an embedding provider that    *)
(* answers) fails with "not ready" and the generative model is not called. *)
C5_NotReady ==
    (/\ GenDone /\ Authorized
     /\ call.req.days >= 1 /\ call.req.days <= 14
     /\ ~EmbedFailed
     /\ ~\E i \in DOMAIN items :
            i \in DOMAIN item_embeddings /\ ILike(items[i].store, call.req.store))
    => (result.kind = "not_ready" /\ Count(trace, "llm") = 0)

C7_ForeignIdReported ==
    Grounded =>
        \A id \in Range(extract_item_ids(call.doc)) :
            (id \in DOMAIN items /\ ~EqualsIgnoreCase(items[id].store, call.store))
            => (result.kind = "grounding" /\ id \in Range(result.detail))

(* C8: a /generate request whose days is below 1 or above 14 is rejected   *)
(* before any provider call or database query; past authentication the     *)
(* rejection is the input error (a request without the configured secret   *)
(* is already rejected as unauthorized); a request with days in 1..14 is   *)
(* never rejected with the input error.                                    *)
C8_DaysRejectedFirst ==
    GenDone =>
        IF call.req.days < 1 \/ call.req.days > 14
        THEN /\ ~result.ok
             /\ trace = <<>>
             /\ result.kind = (IF Authorized THEN "input_error" ELSE "unauthorized")
        ELSE result.kind # "input_error"

\* 15 days, right secret: rejected with the input error
C8_Witness ==
    /\ GenDone /\ RAG_SHARED_SECRET # "" /\ Authorized
    /\ call.req.days = 15
    /\ result.kind = "input_error" /\ result.status = 400

(* C9: within one /generate request the generative model is invoked at     *)
(* most once; a request that failed after the model was asked asked it     *)
(* exactly once.                                                           *)
C9_OneGeneration ==
    GenDone =>
        /\ Count(trace, "llm") <= 1
        /\ (~result.ok /\ LlmAnswered({"raise", "empty", "blank", "text", "json"}))
            => Count(trace, "llm") = 1

\* the model answered nothing, the request failed, and it was asked once
C9_Witness ==
    /\ GenDone /\ ~result.ok
    /\ result.kind = "upstream_empty"
    /\ LlmAnswered({"empty"})
    /\ Count(trace, "llm") = 1

(* C10: every /generate request of the modular service that returns no     *)
(* plan ends in a typed failure (unauthorized, input error, not ready,     *)
(* upstream empty, schema invalid, grounding); none ends in an untyped     *)
(* internal failure.                                                       *)
C10_TypedFailures ==
    (GenDone /\ call.svc = "app" /\ ~result.ok) =>
        result.kind \in {"unauthorized", "input_error", "not_ready",
                         "upstream_empty", "schema_invalid", "grounding"}

---------------------------------------------------------------------------
(* Properties of the backfill operations *)

BackfillDone == phase = "done" /\ call.op = "backfill"

\* the items that have a usable source record in a space
Sourced(space) ==
    CASE space = "items"     -> DOMAIN items
      [] space = "nutrition" -> Usable(item_nutrition)
      [] OTHER               -> Usable(item_ingredients)

\* the items a backfill of the space for the store has to embed, given the
\* embedding tables tbls
Unembedded(space, store, tbls) ==
    {i \in Sourced(space) :
        i \notin DOMAIN TableOf(space, tbls) /\ StoreFilter(i, store)}

\* how many rows a finished run reports as embedded
Reported(route, res) ==
    IF route = "script" THEN res.detail.processed ELSE res.detail.updated

\* the first call covered the whole unembedded set
FirstCovered ==
    /\ call.first.result.ok
    /\ Reported(call.route, call.first.result)
        = Cardinality(Unembedded(call.space, call.req.store, call.first.before))

(* C11: a backfill run once more on the same catalog, after a first        *)
(* successful run that covered the whole unembedded set, leaves every      *)
(* embedding table with the same rows and vectors and reports updated = 0. *)
C11_SecondRunIdle ==
    (BackfillDone /\ call.repeat /\ FirstCovered) =>
        /\ result.ok
        /\ Reported(call.route, result) = 0
        /\ tables = call.before
        /\ Count(trace, "embed") = 0

\* the first run embedded every item of the catalog; the second did nothing
C11_Witness ==
    /\ BackfillDone /\ call.repeat /\ FirstCovered
    /\ call.route = "app:items"
    /\ Reported(call.route, call.first.result) = MaxItem
    /\ Reported(call.route, result) = 0
    /\ DOMAIN item_embeddings = ItemIds

\* the invocations whose committed upsert wrote the row of item i
Writers(space, i) ==
    {r \in RunIds :
        /\ runs[r].pc = "done" /\ runs[r].space = space
        /\ \E k \in 1..runs[r].updated : runs[r].rows[k] = i}

\* the vector invocation r embedded item i with
VectorOf(r, i) ==
    runs[r].vectors[CHOOSE k \in DOMAIN runs[r].rows : runs[r].rows[k] = i]

\* the one of them that committed after the others
LastWriter(space, i) ==
    CHOOSE r \in Writers(space, i) : Writers(space, i) \ {r} \subseteq runs[r].after

(* C12: under any interleaving of concurrent invocations of a backfill     *)
(* route, every embedding row's item id is an existing item, a table has   *)
(* no more rows than there are items (and one row per item id, the key of  *)
(* the table), and the row of an item that several invocations embedded    *)
(* holds the vector of the upsert that committed last.                     *)
C12_RaceSafe ==
    \A space \in Spaces :
        LET table == TableOf(space, tables) IN
        /\ DOMAIN table \subseteq DOMAIN items
        /\ Cardinality(DOMAIN table) <= Cardinality(DOMAIN items)
        /\ \A i \in DOMAIN items :
            /\ i \in DOMAIN table <=> Writers(space, i) # {}
            /\ i \in DOMAIN table =>
                table[i] = VectorOf(LastWriter(space, i), i)

\* two invocations embedded the same item with different vectors; the row
\* holds the vector of the one that committed second
C12_Witness ==
    \E p \in RunIds, q \in RunIds, i \in DOMAIN item_embeddings :
        /\ p # q
        /\ {p, q} \subseteq Writers("items", i)
        /\ p \in runs[q].after
        /\ VectorOf(p, i) # VectorOf(q, i)
        /\ item_embeddings[i] = VectorOf(q, i)

\* the rows a run wrote, read off its upserts
RECURSIVE EmbeddedRows(_)
EmbeddedRows(tr) ==
    IF tr = <<>> THEN <<>>
    ELSE (IF Head(tr).ev = "db:upsert" THEN Head(tr).data.rows ELSE <<>>)
         \o EmbeddedRows(Tail(tr))

\* the rows of the selected store (every store when none is selected, the
\* store compared ignoring letter case) that have a source record and no
\* embedding row in the tables tbls
Eligible(space, store, tbls) ==
    {i \in Sourced(space) :
        /\ i \notin DOMAIN TableOf(space, tbls)
        /\ (store = <<>> \/ EqualsIgnoreCase(items[i].store, store))}

\* rows are the n lowest ids of the set S, for some n <= limit
LowestOf(rows, S, limit) ==
    /\ Len(rows) <= limit
    /\ rows = Prefix(SortedSeq(S), Len(rows))

(* C13: one backfill run with limit L embeds at most L rows, and the rows  *)
(* it embeds are exactly the lowest-id rows of the selected store that had *)
(* a source record and no embedding row when it selected them; for the     *)
(* HTTP routes and for the script with any --limit and --chunk.            *)
C13_LimitedLowestIds ==
    BackfillDone =>
        LowestOf(EmbeddedRows(trace),
                 Eligible(call.space, call.req.store, call.before),
                 call.req.limit)

\* the same for the HTTP routes alone, with the store read as the ILIKE
\* pattern the queries use
RoutesLowestByPattern ==
    (BackfillDone /\ call.route # "script") =>
        LowestOf(EmbeddedRows(trace),
                 Unembedded(call.space, call.req.store, call.before),
                 call.req.limit)

\* the same for the script alone, with the store read as the ILIKE pattern
ScriptLowestByPattern ==
    (BackfillDone /\ call.route = "script") =>
        LowestOf(EmbeddedRows(trace),
                 Unembedded(call.space, call.req.store, call.before),
                 call.req.limit)

\* the rows a run selected, read off its queries
RECURSIVE SelectedRows(_)
SelectedRows(tr) ==
    IF tr = <<>> THEN <<>>
    ELSE (IF Head(tr).ev = "db:select" THEN Head(tr).data.rows ELSE <<>>)
         \o SelectedRows(Tail(tr))

\* the texts a run sent to the embedding provider
RECURSIVE SentTexts(_)
SentTexts(tr) ==
    IF tr = <<>> THEN <<>>
    ELSE (IF Head(tr).ev = "embed" THEN Head(tr).data.text ELSE <<>>)
         \o SentTexts(Tail(tr))

\* the selected rows whose document is the empty string
EmptyDocRows(space, rows) ==
    {n \in DOMAIN rows : DocOf(space, rows[n]) = Value(<<>>)}

(* C14: in the response of a backfill route, skipped is the number of      *)
(* selected rows whose document came out empty, no empty document is sent  *)
(* to the embedding provider, and updated + skipped is the number of rows  *)
(* selected.                                                               *)
C14_SkippedCounts ==
    (BackfillDone /\ call.route # "script" /\ result.ok) =>
        /\ \A n \in DOMAIN SentTexts(trace) : SentTexts(trace)[n] # <<>>
        /\ result.detail.skipped
              = Cardinality(EmptyDocRows(call.space, SelectedRows(trace)))
        /\ result.detail.updated + result.detail.skipped = Len(SelectedRows(trace))

\* what the routes do instead: every selected row is sent and counted as
\* updated, skipped is 0
SkippedIsZero ==
    (BackfillDone /\ call.route # "script" /\ result.ok) =>
        /\ result.detail.skipped = 0
        /\ result.detail.updated = Len(SelectedRows(trace))
        /\ Len(SentTexts(trace)) = Len(SelectedRows(trace))

---------------------------------------------------------------------------
(* Properties of retrieval *)

RetrieveDone == phase = "done" /\ call.op = "retrieve"

\* the distance of item i's embedding to the query of the call
QueryDist(i) == Dist(item_embeddings[i], call.query_vec)

\* the embedded items of the requested store, compared ignoring letter case
EmbeddedInStore ==
    {i \in DOMAIN items : i \in DOMAIN item_embeddings /\ InStore(i, call.store)}

\* the ids of the candidates returned
ReturnedIds == {result.detail[n].id : n \in DOMAIN result.detail}

(* C15: retrieve(store, queryVector, k) returns at most k candidates, in   *)
(* order of non-decreasing distance to the query vector, and no embedded   *)
(* item of the store that was left out is strictly closer than a returned  *)
(* one.                                                                    *)
C15_NearestK ==
    RetrieveDone =>
        LET c == result.detail IN
        /\ result.ok
        /\ Len(c) <= call.k
        /\ \A n \in DOMAIN c, m \in DOMAIN c :
              n < m => QueryDist(c[n].id) <= QueryDist(c[m].id)
        /\ \A j \in EmbeddedInStore \ ReturnedIds, n \in DOMAIN c :
              ~(QueryDist(j) < QueryDist(c[n].id))

\* one candidate asked for, two embedded items of the store at different
\* distances: the nearer one is returned, the other is left out
C15_Witness ==
    /\ RetrieveDone /\ call.k = 1
    /\ Len(result.detail) = 1
    /\ \E j \in EmbeddedInStore \ ReturnedIds :
          QueryDist(j) > QueryDist(result.detail[1].id)

(* C16: every candidate retrieve returns for a store is an item whose     *)
(* store equals the requested store ignoring letter case and that has an   *)
(* item embedding row, whatever the store string (one containing % or _    *)
(* included); when a candidate is asked for, the result is the empty list, *)
(* and no error, exactly when no such item exists.                         *)
C16_OnlyRequestedStore ==
    RetrieveDone =>
        /\ result.ok
        /\ ReturnedIds \subseteq EmbeddedInStore
        /\ call.k >= 1 => (result.detail = <<>> <=> EmbeddedInStore = {})

(* C17: for every candidate returned, the nutrition field is non-null when *)
(* a nutrition source row exists for its id, whichever representation the  *)
(* row is stored in (a bare raw string, or a JSON object with parsed and   *)
(* raw), and null when none exists; likewise the ingredients field; and    *)
(* enrichment never makes retrieval fail.                                  *)
C17_EnrichmentComplete ==
    RetrieveDone =>
        /\ result.ok
        /\ \A n \in DOMAIN result.detail :
            LET c == result.detail[n] IN
            /\ c.nutrition # None <=> c.id \in DOMAIN item_nutrition
            /\ c.ingredients # None <=> c.id \in DOMAIN item_ingredients

\* what the code does keep: a field is non-null exactly when the row is a
\* JSON object whose parsed member is an object
ParsedObject(table, id) ==
    /\ id \in DOMAIN table
    /\ table[id].kind = "json"
    /\ IsObj(table[id].value)
    /\ IsObj(Get(table[id].value, "parsed"))
EnrichedWhenParsed ==
    RetrieveDone =>
        /\ result.ok
        /\ \A n \in DOMAIN result.detail :
            LET c == result.detail[n] IN
            /\ c.nutrition # None <=> ParsedObject(item_nutrition, c.id)
            /\ c.ingredients # None <=> ParsedObject(item_ingredients, c.id)

---------------------------------------------------------------------------
(* Properties of the service as a whole *)

\* a call of a route that authenticates has been served
GuardedDone ==
    /\ phase = "done"
    /\ \/ call.op = "generate"
       \/ call.op = "backfill" /\ call.route # "script"

(* C18: when a shared secret is configured, a request to /generate or to   *)
(* an /embed/backfill route whose secret header is missing or different is *)
(* answered 401 before any database query or provider call (and writes     *)
(* nothing); when none is configured no request is rejected as             *)
(* unauthorized; /health answers {ok: true} whatever the header.           *)
C18_SecretGuardsRoutes ==
    /\ (GuardedDone /\ ~Authorized) =>
          /\ result.status = 401 /\ result.kind = "unauthorized"
          /\ trace = <<>>
          /\ call.op = "backfill" => tables = call.before
    /\ (GuardedDone /\ RAG_SHARED_SECRET = "") =>
          result.status # 401 /\ result.kind # "unauthorized"
    /\ (phase = "done" /\ call.op = "health") =>
          result = Response([ok |-> TRUE]) /\ trace = <<>>

\* a secret is configured, item embeddings are missing, and a nutrition
\* backfill without the header is turned away with 401
C18_Witness ==
    /\ GuardedDone /\ RAG_SHARED_SECRET # ""
    /\ call.op = "backfill" /\ call.route = "app:nutrition"
    /\ call.secret = "<None>"
    /\ result.status = 401
    /\ item_nutrition_embeddings = NoRows

\* a connection is open when the n-th call of the trace is made
ConnectionOpenAt(tr, n) ==
    Cardinality({m \in 1..(n - 1) : tr[m].ev = "conn:open"})
        > Cardinality({m \in 1..(n - 1) : tr[m].ev = "conn:close"})

IsProviderEvent(e) == e.ev \in {"embed", "llm"}

(* C19: in no entry point (the modular routes, main.py, the backfill       *)
(* script) is a provider call made while the execution holds an open       *)
(* database connection.                                                    *)
C19_NoCallWhileConnected ==
    (phase = "done" /\ call.op \in {"generate", "backfill"}) =>
        \A n \in DOMAIN trace :
            IsProviderEvent(trace[n]) => ~ConnectionOpenAt(trace, n)

\* the same for the routes of the modular service alone
ModularNoCallWhileConnected ==
    (phase = "done" /\ call.op = "backfill"
        /\ call.route \in {"app:items", "app:nutrition", "app:ingredients"}) =>
        \A n \in DOMAIN trace :
            IsProviderEvent(trace[n]) => ~ConnectionOpenAt(trace, n)

\* the step of /generate a call of the trace belongs to: 1 query embedding,
\* 2 candidate retrieval, 3 generative call, 5 grounding verification
\* (4, schema validation, makes no call); 0 for opening and closing a
\* connection
StepOf(e) ==
    CASE e.ev = "embed" -> 1
      [] e.ev \in {"db:retrieve", "db:nutrition", "db:ingredients"} -> 2
      [] e.ev = "llm" -> 3
      [] e.ev = "db:verify" -> 5
      [] OTHER -> 0

\* the steps of the trace occur in the fixed order, none before the ones
\* it follows
StepsInOrder(tr) ==
    /\ \A n \in DOMAIN tr, m \in DOMAIN tr :
          (n < m /\ StepOf(tr[n]) > 0 /\ StepOf(tr[m]) > 0)
              => StepOf(tr[n]) <= StepOf(tr[m])
    /\ \A n \in DOMAIN tr :
          \A step \in {1, 2, 3} :
              step < StepOf(tr[n]) => \E m \in 1..(n - 1) : StepOf(tr[m]) = step

\* the text the generative model answered in the call
AnsweredText == trace[CHOOSE n \in DOMAIN trace : trace[n].ev = "llm"].data

(* C20: in every /generate execution the steps occur in the order query    *)
(* embedding, candidate retrieval, generative call, schema validation,     *)
(* grounding verification, response, each after the one before it has      *)
(* succeeded; a response is produced only after validation and grounding   *)
(* verification have succeeded.                                            *)
C20_PipelineOrder ==
    GenDone =>
        /\ StepsInOrder(trace)
        /\ result.ok =>
            /\ Count(trace, "embed") = 1 /\ ~EmbedFailed
            /\ Count(trace, "db:retrieve") = 1
            /\ Count(trace, "llm") = 1
            /\ parse_and_validate_plan_json(AnsweredText).ok
            /\ Count(trace, "db:verify") = 1

\* what both handlers keep: the calls they make are in the fixed order
CallsInOrder == GenDone => StepsInOrder(trace)

---------------------------------------------------------------------------
(* Properties of the retrieval query *)

\* the texts sent to the embedding provider, in order
EmbeddedTexts(tr) ==
    LET sent == SelectSeq(tr, LAMBDA e : e.ev = "embed")
    IN  [n \in 1..Len(sent) |-> sent[n].data.text]

\* the preference the request carries for the disliked ingredients, under
\* the name its request model declares (allergies / dislikedIngredients)
DislikedOf(req) ==
    IF "allergies" \in DOMAIN req.preferences
    THEN req.preferences["allergies"]
    ELSE req.preferences["dislikedIngredients"]

\* the query text carries the three preferences or their defaults
CarriesPreferences(text, req) ==
    /\ text.dietary = Or(req.preferences["dietaryRestrictions"], JStr("none"))
    /\ text.disliked = Or(DislikedOf(req), JStr("none"))
    /\ text.calories = Or(req.preferences["targetCaloriesPerDay"],
                          JStr("not specified"))

\* an authorized /generate request whose days are in range
PastDaysCheck ==
    /\ GenDone /\ Authorized
    /\ ~days_out_of_range(call.req.days)

(* C21: for every modular /generate request that passes authentication and *)
(* the days check, the query is built and the embedding provider is        *)
(* invoked exactly once, with a text carrying the dietary restriction, the *)
(* disliked-ingredients/allergies value and the target calories (or their  *)
(* defaults).                                                              *)
C21_QueryEmbeddedOnce ==
    (PastDaysCheck /\ call.svc = "app") =>
        /\ Len(EmbeddedTexts(trace)) = 1
        /\ CarriesPreferences(EmbeddedTexts(trace)[1], call.req)

\* the single-file service does what C21 says of the modular one
MainQueryEmbeddedOnce ==
    (PastDaysCheck /\ call.svc = "main") =>
        /\ Len(EmbeddedTexts(trace)) = 1
        /\ CarriesPreferences(EmbeddedTexts(trace)[1], call.req)

---------------------------------------------------------------------------
(* Properties of the grounding check *)

VerifyDone == phase = "done" /\ call.op = "verify"

\* the ids the catalog query returns for the store
FoundIds(store, ids) ==
    {i \in Range(ids) : i \in DOMAIN items /\ ILike(items[i].store, store)}

\* the requested ids the catalog query does not return
MissingIds(store, ids) == Range(ids) \ FoundIds(store, ids)

\* the sequence is strictly ascending (so it has no duplicates)
Ascending(seq) == \A m, n \in DOMAIN seq : m < n => seq[m] < seq[n]

(* C22: verify with an empty id list fails without issuing any catalog     *)
(* query; with a non-empty list it issues exactly one catalog query, and   *)
(* on failure the reported list holds at most 25 ids, has no duplicates,   *)
(* is ascending and consists of the smallest missing ids.                  *)
C22_VerifyReport ==
    VerifyDone =>
        LET missing == MissingIds(call.store, call.item_ids) IN
        /\ call.item_ids = <<>> =>
              /\ ~result.ok /\ result.kind = "grounding"
              /\ Count(trace, "db:verify") = 0
        /\ call.item_ids # <<>> =>
              /\ Count(trace, "db:verify") = 1
              /\ result.ok <=> missing = {}
              /\ ~result.ok =>
                    /\ Len(result.detail) <= MAX_REPORTED
                    /\ Ascending(result.detail)
                    /\ result.detail =
                          Prefix(SortedSeq(missing), MAX_REPORTED)

\* a failure whose list of missing ids was cut at 25, from a list that
\* repeated ids and was not in ascending order
C22_Witness ==
    /\ VerifyDone /\ ~result.ok
    /\ Cardinality(MissingIds(call.store, call.item_ids)) > MAX_REPORTED
    /\ Len(result.detail) = MAX_REPORTED
    /\ Len(call.item_ids) > Cardinality(Range(call.item_ids))
    /\ FoundIds(call.store, call.item_ids) # {}

---------------------------------------------------------------------------
(* Properties of repeated backfill *)

\* no row that the job's route and store select lacks an embedding row
NoneMissing == Unembedded(Job.space, Job.store, tables) = {}

\* once nothing is missing, no step writes an embedding table (no upsert
\* runs, so every row keeps its vector and its updated_at), and an
\* invocation answers updated = 0
SettledStaysIdle ==
    NoneMissing =>
        /\ tables' = tables
        /\ Count(trace', "db:upsert") = 0
        /\ result'.ok => result'.detail = [updated |-> 0, skipped |-> 0]

(* C23: repeated backfill invocations with limit >= 1 on a fixed catalog   *)
(* eventually reach, and then stay in, a state in which no row with a      *)
(* usable source record lacks an embedding row; from then on every         *)
(* invocation returns updated = 0 and leaves every embedding table         *)
(* unchanged, updated_at included.                                         *)
C23_RepeatConverges ==
    /\ <>[]NoneMissing
    /\ [][SettledStaysIdle]_vars

\* an invocation that found every sourced row embedded by earlier
\* invocations, and did nothing
C23_Witness ==
    /\ BackfillDone /\ Job.pc = "returned"
    /\ Job.space = "nutrition" /\ Job.store = <<>>
    /\ DOMAIN item_nutrition_embeddings = Sourced("nutrition")
    /\ Cardinality(Sourced("nutrition")) = MaxItem
    /\ result = BackfillResponse(0, 0)
    /\ tables = call.before

---------------------------------------------------------------------------
(* Properties of the batch sent to the embedding provider *)

\* the batch size configured for the call: --chunk for the script (its
\* default is BATCH_SIZE), BATCH_SIZE for the services
ConfiguredBatch ==
    IF call.route = "script" THEN call.req.chunk ELSE BATCH_SIZE

(* C24: in every backfill execution, no single call to the embedding       *)
(* provider carries more texts than the configured batch size, whatever    *)
(* limit the caller passes.                                                *)
C24_BatchBounded ==
    BackfillDone =>
        \A n \in DOMAIN trace :
            trace[n].ev = "embed" => Len(trace[n].data.text) <= ConfiguredBatch

\* the script keeps every provider call within --chunk
ScriptBatchBounded ==
    (BackfillDone /\ call.route = "script") =>
        \A n \in DOMAIN trace :
            trace[n].ev = "embed" => Len(trace[n].data.text) <= call.req.chunk

\* the services send as many texts as rows were selected, up to the limit
RoutesSendLimit ==
    (BackfillDone /\ call.route # "script") =>
        \A n \in DOMAIN trace :
            trace[n].ev = "embed" =>
                Len(trace[n].data.text)
                    = Min(call.req.limit,
                          Cardinality(Unembedded(call.space, call.req.store, call.before)))

---------------------------------------------------------------------------
(* Properties of the document builders *)

DocDone == phase = "done" /\ call.op = "doc"

(* C25: item_doc, nutrition_doc and ingredients_doc return a string        *)
(* (possibly empty) and never raise, whatever the record: a bare string, a *)
(* JSON string or a decoded object, with parsed absent, null, empty or     *)
(* populated, and with list entries that are objects or plain strings.     *)
C25_BuildersNeverRaise == DocDone => result.ok

\* a builder raises only on a truthy parsed that is no dict, or on a list
\* entry that is no dict
RaisesOnlyOnNonDict ==
    (DocDone /\ ~result.ok) =>
        /\ result.detail = "AttributeError"
        /\ call.builder \notin ItemBuilders
        /\ call.record.kind = "json"
        /\ LET parsed == Get(call.record.value, "parsed") IN
            \/ Truthy(parsed) /\ ~IsObj(parsed)
            \/ /\ call.builder = "ingredients_doc"
               /\ \/ HasNonDict(Get(parsed, "ingredients_list"))
                  \/ HasNonDict(Get(parsed, "contains_less_than"))
                  \/ \E n \in DOMAIN Get(parsed, "contains_less_than").v :
                        HasNonDict(Get(Get(parsed, "contains_less_than").v[n],
                                       "ingredients"))

(* C26: every writer of item_embeddings builds an item's document with the *)
(* same template: for every item record, the text the modular backfill     *)
(* route embeds, the text the single-file /embed/backfill embeds and the   *)
(* text the backfill script embeds are the same string.                    *)
C26_OneItemTemplate ==
    (DocDone /\ call.builder \in ItemBuilders) =>
        /\ result.detail = item_doc(call.record)
        /\ result.detail = main_item_doc(call.record)
        /\ result.detail = item_to_text(call.record)

\* the two services build the same document
ServicesShareTemplate ==
    (DocDone /\ call.builder \in {"item_doc", "main:item_doc"}) =>
        /\ result.detail = item_doc(call.record)
        /\ result.detail = main_item_doc(call.record)

---------------------------------------------------------------------------
(* Properties of the returned plan *)

(* C27: every plan the validation and grounding steps of the modular       *)
(* /generate let through has at least one DayPlan: a schema-valid model    *)
(* output whose plan list is empty is never returned, because it yields no *)
(* item ids and the grounding step rejects it.                             *)
C27_NoEmptyPlanReturned ==
    Grounded =>
        /\ result.ok => Len(call.doc.plan) >= 1
        /\ call.doc.plan = <<>> =>
              /\ ~result.ok /\ result.kind = "grounding"
              /\ Count(trace, "db:verify") = 0

\* a schema-valid text with an empty plan list, rejected by the grounding
\* step
C27_Witness ==
    /\ Grounded
    /\ call.content = JsonText(JDoc(<<>>))
    /\ call.doc.plan = <<>>
    /\ ~result.ok /\ result.kind = "grounding"

\* the modular handler as a whole returns no plan with an empty plan list
ModularReturnsNoEmptyPlan ==
    (GenDone /\ call.svc = "app" /\ result.ok) =>
        ResponsePlan(result.detail) # <<>>

---------------------------------------------------------------------------
(* Properties relating the two /generate implementations *)

\* what a provider answered in the finished call
ReplyOf(ev) ==
    LET e == trace[CHOOSE n \in DOMAIN trace : trace[n].ev = ev]
    IN  IF ev = "embed" THEN e.data.reply ELSE e.data

\* the request bodies that the finished call's service parsed into the
\* preferences of the call
BodiesOfCall ==
    LET fields == IF call.svc = "app" THEN Preferences_fields
                  ELSE Main_Preferences_fields
    IN  {body \in PrefBodies : Preferences(fields, body) = call.req.preferences}

\* the other implementation, given the same catalog, request body, secret
\* and provider answers, returns a plan as well
OtherReturnsPlan ==
    \A body \in BodiesOfCall :
        IF call.svc = "main"
        THEN generate(GenerateRequest(Preferences_fields, call.req.store,
                                      call.req.days, body),
                      call.secret, ReplyOf("embed"), ReplyOf("llm")).res.ok
        ELSE main_generate(GenerateRequest(Main_Preferences_fields, call.req.store,
                                           call.req.days, body),
                           call.secret, ReplyOf("embed"), ReplyOf("llm")).res.ok

(* C28: the modular /generate and the single-file /generate accept the     *)
(* same model outputs: for the same catalog, request and model text, one   *)
(* returns a plan if and only if the other does, so a plan with a schema   *)
(* violation or an id outside the requested store is returned by neither.  *)
C28_SameAcceptance ==
    (GenDone /\ result.ok) =>
        /\ OtherReturnsPlan
        /\ parse_and_validate_plan_json(ReplyOf("llm")).ok
        /\ verify_item_ids_belong_to_store(call.req.store,
               extract_item_ids(parse_and_validate_plan_json(ReplyOf("llm")).detail)).res.ok

\* whatever the modular service returns, the single-file service returns too
ModularPlanAlsoFromMain ==
    (GenDone /\ result.ok /\ call.svc = "app") => OtherReturnsPlan

---------------------------------------------------------------------------
(* Properties of what a successful backfill call leaves behind *)

\* a call of the job has returned a BackfillResponse
BackfillReturned == Job.pc = "returned" /\ phase = "done" /\ result.ok

\* the rows of the job's selection that have a row in its embedding table
RowsEmbedded ==
    {n \in DOMAIN Job.rows : Job.rows[n] \in DOMAIN TableOf(Job.space, tables)}

(* C29: after a backfill call returns successfully, every row it selected  *)
(* has an embedding row and the returned updated equals the number of rows *)
(* selected, also when the embedding provider returned fewer vectors than  *)
(* texts were sent.                                                        *)
C29_AllSelectedEmbedded ==
    BackfillReturned =>
        /\ RowsEmbedded = DOMAIN Job.rows
        /\ result.detail.updated = Len(Job.rows)

\* what the code does: it pairs rows and vectors and writes the pairs, so
\* updated is the shorter of the two lengths and the first updated rows of
\* the selection are the ones written
PairsEmbedded ==
    BackfillReturned =>
        /\ result.detail.updated = Min(Len(Job.rows), Len(Job.vectors))
        /\ RowsEmbedded = 1..result.detail.updated

---------------------------------------------------------------------------
(* Properties of the connection pool *)

\* the pools that were created and are not closed
UnclosedPools == {k \in DOMAIN runs.pools : runs.pools[k] = "open"}

\* the threads that hold a connection handed out by get_conn
Holders == {t \in Threads : runs.th[t].pc = "get:held"}

(* C30: after any sequence and interleaving of init_pool, close_pool and   *)
(* get_conn calls, at most one connection pool that has been created is    *)
(* not closed, and get_conn never hands out a connection from a closed     *)
(* pool.                                                                   *)
C30_OneLivePool ==
    /\ Cardinality(UnclosedPools) <= 1
    /\ \A t \in Holders : runs.th[t].from_open

\* a connection is only ever handed out by a pool that is open at that moment
HandedOutByOpenPool == \A t \in Holders : runs.th[t].from_open

\* the global refers to no pool or to a pool that was created; pools that
\* are unclosed and no longer reachable from the global are never closed
PoolGlobalInRange == runs.pool \in 0..Len(runs.pools)

====
